---- MODULE Spec2Model ----
(***************************************************************************)
(* Model of the time_tracking application: Task and TimeRecord with their  *)
(* validation (models.py, forms.py, serializers.py), the REST viewsets     *)
(* (views.py), the server-rendered views (web_views.py) and the admin task *)
(* screen (admin.py).                                                      *)
(*                                                                         *)
(* Spec is the program's writes and listings.  ReadSpec adds the read-only *)
(* endpoints.  The other specifications exercise one part each: TotalsSpec *)
(* and SummarySpec the sums of worked time, DashSpec the dashboards,       *)
(* CalSpec the period filters over the calendar, FmtSpec the formatting of *)
(* worked_hours, IsolationSpec the requests of two users side by side,     *)
(* DatesSpec the writes of record dates as the days pass, RaceSpec two     *)
(* requests on one task that overlap.                                      *)
(*                                                                         *)
(* Durations are integers in seconds, dates are day numbers.  A model      *)
(* instance attribute carries a tag beside its value, because the code's   *)
(* behaviour depends on the Python type held: None, a date, or the         *)
(* datetime that DateField(default=timezone.now) puts on a new instance.   *)
(***************************************************************************)
EXTENDS Integers, FiniteSets, Sequences, TLC

\* ---------------------------------------------------------------- bounds
MaxTasks == 2
MaxRecords == 1
MaxDay == 1
\* records in the specification of the totals
MaxTotalsRecords == 2
\* tasks and records in the specification of the dashboards: one of another
\* user and one more than the dashboards show
MaxDashTasks == 7
MaxDashRecords == 12
\* the first and the last day of the specification of the periods, and how
\* far back of today a record is dated there
FirstCalDay == 330
MaxCalDay == 460
MaxCalBack == 62
\* requests on one task in the specification of the overlapping requests
MaxRequests == 3

\* ------------------------------------------------------- program constants
\* MinValueValidator(timezone.timedelta(minutes=1)), in seconds
MinWorkedTime == 60

\* ------------------------------------------------------------ input sets
Users == {"u1", "u2"}
Descriptions == {"", "a"}
WorkDescriptions == {"", "w"}
WorkedTimes == {-60, 0, 30, 60}
TaskIds == 1..MaxTasks
RecordIds == 1..MaxRecords
Dates == 0..(MaxDay + 1)
RecordFields == {"task_id", "record_date", "worked_time", "work_description"}
TaskFields == {"description", "active"}
Methods == {"GET", "POST"}

\* the two tables, the next primary key of each, the server date, and the
\* requests that have read a row and not yet answered
VARIABLES tasks, records, nextTaskId, nextRecordId, today, inflight

vars == <<tasks, records, nextTaskId, nextRecordId, today, inflight>>

\* ------------------------------------------------------------- responses
Err(field, code, value) == <<field, code, value>>

\* what a handler does with a request: the response (status, the exception
\* that ended it, the field errors, the ids of the entities it shows) and the
\* two tables as it leaves them
Outcome(status, exc, errors, ids, newTasks, newRecords) ==
    [status |-> status, exc |-> exc, errors |-> errors, ids |-> ids,
     tasks |-> newTasks, records |-> newRecords]

\* a response that writes nothing
Answer(status, exc, errors, ids) ==
    Outcome(status, exc, errors, ids, tasks, records)

Remove(f, gone) == [i \in (DOMAIN f) \ gone |-> f[i]]

\* ------------------------------------------------------------ the models
Task(user, description, active) ==
    [responsible_user |-> user, description |-> description, active |-> active]

TimeRecord(task, record_date, worked_time, work_description) ==
    [task |-> task, record_date |-> record_date, worked_time |-> worked_time,
     work_description |-> work_description]

\* an in-memory TimeRecord instance: each attribute with the type it holds
Instance(task, rdTag, record_date, wtTag, worked_time, work_description) ==
    [task |-> task, rdTag |-> rdTag, record_date |-> record_date,
     wtTag |-> wtTag, worked_time |-> worked_time,
     work_description |-> work_description]

\* the worked_time field declared without its validator
MinValueValidator_off(w) == {}

\* validators=[MinValueValidator(timedelta(minutes=1))]
MinValueValidator(w) ==
    IF w < MinWorkedTime THEN {Err("worked_time", "min_value", w)} ELSE {}

\* clean() without the check of record_date against the current date
TimeRecord_clean_any_date(inst, now) ==
    IF inst.wtTag = "val" /\ inst.worked_time # 0 /\ inst.worked_time <= 0
    THEN [exc |-> "ValidationError",
          errors |-> {Err("worked_time", "gt_zero", 0)}]
    ELSE [exc |-> "None", errors |-> {}]

\* TimeRecord.clean: the first raise ends it; timedelta(0) and None are falsy;
\* datetime > date raises TypeError
TimeRecord_clean(inst, now) ==
    IF inst.wtTag = "val" /\ inst.worked_time # 0 /\ inst.worked_time <= 0
    THEN [exc |-> "ValidationError",
          errors |-> {Err("worked_time", "gt_zero", 0)}]
    ELSE IF inst.rdTag = "datetime"
    THEN [exc |-> "TypeError", errors |-> {}]
    ELSE IF inst.rdTag = "date" /\ inst.record_date > now
    THEN [exc |-> "ValidationError",
          errors |-> {Err("record_date", "future", 0)}]
    ELSE [exc |-> "None", errors |-> {}]

\* Model.clean_fields over the fields not excluded
clean_fields(inst, exclude) ==
    (IF "task" \notin exclude /\ inst.task \notin DOMAIN tasks
     THEN {Err("task", "invalid", 0)} ELSE {})
    \cup
    (IF "worked_time" \in exclude THEN {}
     ELSE IF inst.wtTag = "none" THEN {Err("worked_time", "null", 0)}
     ELSE MinValueValidator(inst.worked_time))
    \cup
    (IF "work_description" \notin exclude /\ inst.work_description = ""
     THEN {Err("work_description", "blank", 0)} ELSE {})

\* Model.full_clean: clean_fields (which converts a datetime record_date to
\* a date unless the field is excluded), then clean() even if fields failed
full_clean(inst, exclude, now) ==
    LET fieldErrs == clean_fields(inst, exclude)
        converted == IF "record_date" \notin exclude /\ inst.rdTag = "datetime"
                     THEN [inst EXCEPT !.rdTag = "date"] ELSE inst
        c == TimeRecord_clean(converted, now)
    IN  IF c.exc = "TypeError" THEN [exc |-> "TypeError", errors |-> {}]
        ELSE IF fieldErrs \cup c.errors # {}
        THEN [exc |-> "ValidationError", errors |-> fieldErrs \cup c.errors]
        ELSE [exc |-> "None", errors |-> {}]

\* TimeRecord.save: full_clean() then the row is written
TimeRecord_save(inst, now) == full_clean(inst, {}, now)

\* --------------------------------------------------------- access scoping
\* Task.objects.all(): the filter on the requesting user left out
TaskQuerySet_unscoped(u) == DOMAIN tasks

\* Task.objects.filter(responsible_user=user)
TaskQuerySet(u) == {t \in DOMAIN tasks : tasks[t].responsible_user = u}

\* TimeRecord.objects.filter(task__responsible_user=user)
RecordQuerySet(u) ==
    {r \in DOMAIN records : /\ records[r].task \in DOMAIN tasks
                            /\ tasks[records[r].task].responsible_user = u}

\* ------------------------------------------------------------ serializers
\* the owner taken from the request body
TaskCreateSerializer_create_supplied(u, o, description, active) ==
    Task(o, description, active)

\* TaskCreateSerializer.create / TaskViewSet.perform_create: the owner is the
\* requesting user u; `o` is whatever owner the request body carried
TaskCreateSerializer_create(u, o, description, active) ==
    Task(u, description, active)

\* TaskCreateSerializer / TaskSerializer / TaskForm: description is required
TaskDescriptionErrors(description) ==
    IF description = "" THEN {Err("description", "required", 0)} ELSE {}

\* responsible_user writable: the owner the body carries is written too
TaskSerializer_update_writable(old, o, given, description, active) ==
    [old EXCEPT !.responsible_user = o,
                !.description = IF "description" \in given THEN description ELSE @,
                !.active = IF "active" \in given THEN active ELSE @]

\* TaskSerializer.update: responsible_user is read-only, so `o` is dropped;
\* only the fields the request gave are written
TaskSerializer_update(old, o, given, description, active) ==
    [old EXCEPT !.description = IF "description" \in given THEN description ELSE @,
                !.active = IF "active" \in given THEN active ELSE @]

\* validate_task_id looking the task up without the user: any existing task
TimeRecordSerializer_validate_task_id_any(u, t) ==
    IF t \in DOMAIN tasks THEN {}
    ELSE {Err("task_id", "not_found", 0)}

\* TimeRecordSerializer.validate_task_id
TimeRecordSerializer_validate_task_id(u, t) ==
    IF t \in TaskQuerySet(u) THEN {}
    ELSE {Err("task_id", "not_found", 0)}

\* TimeRecordCreateSerializer.validate_task_id
TimeRecordCreateSerializer_validate_task_id(u, t) ==
    IF t \in TaskQuerySet(u) THEN {}
    ELSE {Err("task_id", "not_found", 0)}

\* the serializer fields built from the model: worked_time carries the
\* model's minimum, work_description may not be blank, record_date is free
SerializerFieldErrors(w, ds) ==
    MinValueValidator(w)
    \cup (IF ds = "" THEN {Err("work_description", "blank", 0)} ELSE {})

\* TimeRecordCreateSerializer.is_valid
TimeRecordCreateSerializer_errors(u, t, w, ds) ==
    TimeRecordCreateSerializer_validate_task_id(u, t)
    \cup SerializerFieldErrors(w, ds)

\* TimeRecordSerializer.is_valid: PUT requires every field without a
\* default, PATCH (partial) validates only the fields given
TimeRecordSerializer_errors(u, partial, given, t, w, ds) ==
    (IF "task_id" \in given THEN TimeRecordSerializer_validate_task_id(u, t)
     ELSE IF partial THEN {} ELSE {Err("task_id", "required", 0)})
    \cup
    (IF "worked_time" \in given THEN MinValueValidator(w)
     ELSE IF partial THEN {} ELSE {Err("worked_time", "required", 0)})
    \cup
    (IF "work_description" \in given
     THEN (IF ds = "" THEN {Err("work_description", "blank", 0)} ELSE {})
     ELSE IF partial THEN {} ELSE {Err("work_description", "required", 0)})

\* ------------------------------------------------------------------ forms
\* the form built without user=: the task choices are all tasks
TimeRecordForm_task_queryset_all(u) == DOMAIN tasks

\* TimeRecordForm.__init__: the task choices are the user's own tasks
TimeRecordForm_task_queryset(u) == TaskQuerySet(u)

\* TimeRecordForm.clean_worked_time: timedelta(0) is falsy and passes
clean_worked_time(w) ==
    IF w # 0 /\ w <= 0 THEN {Err("worked_time", "gt_zero", 0)} ELSE {}

\* TimeRecordForm.clean_record_date
clean_record_date(d, now) ==
    IF d > now THEN {Err("record_date", "future", 0)} ELSE {}

\* BaseForm._clean_fields over the four fields of TimeRecordForm; the form
\* fields carry no validators of the model fields, those run in _post_clean
TimeRecordForm_field_errors(u, t, d, w, ds, now) ==
    (IF t \in TimeRecordForm_task_queryset(u) THEN {}
     ELSE {Err("task", "invalid_choice", 0)})
    \cup clean_record_date(d, now)
    \cup clean_worked_time(w)
    \cup (IF ds = "" THEN {Err("work_description", "required", 0)} ELSE {})

\* TimeRecordForm.is_valid: field cleaning, then ModelForm._post_clean, which
\* copies the cleaned fields onto the instance (a failed field keeps what the
\* instance held) and runs instance.full_clean(exclude = failed fields)
TimeRecordForm_is_valid(u, base, t, d, w, ds, now) ==
    LET errs == TimeRecordForm_field_errors(u, t, d, w, ds, now)
        failed == {e[1] : e \in errs}
        inst == Instance(
            IF "task" \in failed THEN base.task ELSE t,
            IF "record_date" \in failed THEN base.rdTag ELSE "date",
            IF "record_date" \in failed THEN base.record_date ELSE d,
            IF "worked_time" \in failed THEN base.wtTag ELSE "val",
            IF "worked_time" \in failed THEN base.worked_time ELSE w,
            IF "work_description" \in failed THEN base.work_description ELSE ds)
        fc == full_clean(inst, failed, now)
    IN  [exc |-> IF fc.exc = "TypeError" THEN "TypeError" ELSE "None",
         errors |-> errs \cup fc.errors,
         inst |-> inst]

\* TimeRecord(): task None, record_date the datetime default, worked_time None
NewInstance(now) == Instance(0, "datetime", now, "none", 0, "")

\* a stored row loaded as an instance
Loaded(r) == Instance(r.task, "date", r.record_date, "val", r.worked_time,
                      r.work_description)

\* the row an instance is written as
Row(inst) == TimeRecord(inst.task, inst.record_date, inst.worked_time,
                        inst.work_description)

\* new_task: form.save(commit=False); task.responsible_user = request.user
new_task_instance(u, o, description, active) == Task(u, description, active)

\* edit_task: TaskForm has the fields description and active only
TaskForm_save(old, o, description, active) ==
    [old EXCEPT !.description = description, !.active = active]

\* TaskAdmin: responsible_user, description and active are editable
TaskAdmin_save(old, o, description, active) == Task(o, description, active)

\* on_delete without the cascade: no row goes with the task
CascadeDelete_none(t) == {}

\* on_delete=models.CASCADE on TimeRecord.task: the rows that go with task t
CascadeDelete(t) == {r \in DOMAIN records : records[r].task = t}

\* toggle_status setting a fixed target: task.active = False
ToggleActive_fixed(task) == [task EXCEPT !.active = FALSE]

\* toggle_status: task.active = not task.active
ToggleActive(task) == [task EXCEPT !.active = ~task.active]

Init ==
    /\ tasks = <<>>
    /\ records = <<>>
    /\ nextTaskId = 1
    /\ nextRecordId = 1
    /\ today = 0
    /\ inflight = <<>>

\* timezone.now().date() moves forward
Tick ==
    /\ today < MaxDay
    /\ today' = today + 1
    /\ UNCHANGED <<tasks, records, nextTaskId, nextRecordId, inflight>>

\* -------------------------------------------------------- TaskViewSet (API)
\* GET /api/tasks/
TaskViewSet_list(u) == Answer(200, "None", {}, TaskQuerySet(u))

\* GET /api/tasks/{id}/ : get_object() over get_queryset()
TaskViewSet_retrieve(u, id) ==
    IF id \in TaskQuerySet(u) THEN Answer(200, "None", {}, {id})
    ELSE Answer(404, "None", {}, {})

\* POST /api/tasks/
TaskViewSet_create(u, o, description, active) ==
    LET errs == TaskDescriptionErrors(description) IN
    IF errs # {} THEN Answer(400, "None", errs, {})
    ELSE Outcome(201, "None", {}, {nextTaskId},
            tasks @@ (nextTaskId :>
                TaskCreateSerializer_create(u, o, description, active)),
            records)

\* PUT/PATCH /api/tasks/{id}/
TaskViewSet_update(u, id, o, partial, given, description, active) ==
    LET errs == IF "description" \in given THEN TaskDescriptionErrors(description)
                ELSE IF partial THEN {}
                ELSE {Err("description", "required", 0)}
    IN  IF id \notin TaskQuerySet(u) THEN Answer(404, "None", {}, {})
        ELSE IF errs # {} THEN Answer(400, "None", errs, {})
        ELSE Outcome(200, "None", {}, {id},
                [tasks EXCEPT ![id] =
                    TaskSerializer_update(@, o, given, description, active)],
                records)

\* DELETE /api/tasks/{id}/ : the task and its records go in one transaction
TaskViewSet_destroy(u, id) ==
    IF id \notin TaskQuerySet(u) THEN Answer(404, "None", {}, {})
    ELSE Outcome(204, "None", {}, {},
            Remove(tasks, {id}), Remove(records, CascadeDelete(id)))

\* POST /api/tasks/{id}/toggle_status/
TaskViewSet_toggle_status(u, id) ==
    IF id \notin TaskQuerySet(u) THEN Answer(404, "None", {}, {})
    ELSE Outcome(200, "None", {}, {id},
            [tasks EXCEPT ![id] = ToggleActive(@)], records)

\* -------------------------------------------------- TimeRecordViewSet (API)
\* GET /api/records/
TimeRecordViewSet_list(u) == Answer(200, "None", {}, RecordQuerySet(u))

\* GET /api/records/{id}/
TimeRecordViewSet_retrieve(u, id) ==
    IF id \in RecordQuerySet(u) THEN Answer(200, "None", {}, {id})
    ELSE Answer(404, "None", {}, {})

\* POST /api/records/ : is_valid(), then objects.create() -> save() ->
\* full_clean(); a django ValidationError raised there is not an API
\* exception, so the response is a server error
TimeRecordViewSet_create(u, t, d, w, ds) ==
    LET errs == TimeRecordCreateSerializer_errors(u, t, w, ds)
        inst == Instance(t, "date", d, "val", w, ds)
        sv == TimeRecord_save(inst, today)
    IN  IF errs # {} THEN Answer(400, "None", errs, {})
        ELSE IF sv.exc # "None" THEN Answer(500, sv.exc, {}, {})
        ELSE Outcome(201, "None", {}, {nextRecordId},
                tasks, records @@ (nextRecordId :> Row(inst)))

\* PUT/PATCH /api/records/{id}/ : setattr of the validated fields, save()
TimeRecordViewSet_update(u, id, partial, given, t, d, w, ds) ==
    IF id \notin RecordQuerySet(u) THEN Answer(404, "None", {}, {})
    ELSE
    LET errs == TimeRecordSerializer_errors(u, partial, given, t, w, ds)
        old == Loaded(records[id])
        inst == Instance(
            IF "task_id" \in given THEN t ELSE old.task,
            "date",
            IF "record_date" \in given THEN d ELSE old.record_date,
            "val",
            IF "worked_time" \in given THEN w ELSE old.worked_time,
            IF "work_description" \in given THEN ds ELSE old.work_description)
        sv == TimeRecord_save(inst, today)
    IN  IF errs # {} THEN Answer(400, "None", errs, {})
        ELSE IF sv.exc # "None" THEN Answer(500, sv.exc, {}, {})
        ELSE Outcome(200, "None", {}, {id},
                tasks, [records EXCEPT ![id] = Row(inst)])

\* DELETE /api/records/{id}/
TimeRecordViewSet_destroy(u, id) ==
    IF id \notin RecordQuerySet(u) THEN Answer(404, "None", {}, {})
    ELSE Outcome(204, "None", {}, {}, tasks, Remove(records, {id}))

\* --------------------------------------------------------------- web views
\* GET /tasks/
task_list(u) == Answer(200, "None", {}, TaskQuerySet(u))

\* GET /tasks/{id}/ : get_object_or_404(Task, pk, responsible_user=user);
\* the page shows the task
task_detail(u, id) ==
    IF id \in TaskQuerySet(u) THEN Answer(200, "None", {}, {id})
    ELSE Answer(404, "None", {}, {})

\* /tasks/new/
new_task(u, method, o, description, active) ==
    LET errs == TaskDescriptionErrors(description) IN
    IF method = "GET" THEN Answer(200, "None", {}, {})
    ELSE IF errs # {} THEN Answer(200, "None", errs, {})
    ELSE Outcome(302, "None", {}, {nextTaskId},
            tasks @@ (nextTaskId :> new_task_instance(u, o, description, active)),
            records)

\* /tasks/{id}/edit/
edit_task(u, id, method, o, description, active) ==
    LET errs == TaskDescriptionErrors(description) IN
    IF id \notin TaskQuerySet(u) THEN Answer(404, "None", {}, {})
    ELSE IF method = "GET" THEN Answer(200, "None", {}, {id})
    ELSE IF errs # {} THEN Answer(200, "None", errs, {id})
    ELSE Outcome(302, "None", {}, {id},
            [tasks EXCEPT ![id] = TaskForm_save(@, o, description, active)],
            records)

\* GET /records/
record_list(u) == Answer(200, "None", {}, RecordQuerySet(u))

\* /records/new/ : an exception that is not a ValidationError leaves
\* is_valid() and the view as a server error
new_record(u, method, t, d, w, ds) ==
    LET f == TimeRecordForm_is_valid(u, NewInstance(today), t, d, w, ds, today)
        sv == TimeRecord_save(f.inst, today)
    IN  IF method = "GET" THEN Answer(200, "None", {}, {})
        ELSE IF f.exc # "None" THEN Answer(500, f.exc, {}, {})
        ELSE IF f.errors # {} THEN Answer(200, "None", f.errors, {})
        ELSE IF sv.exc # "None" THEN Answer(500, sv.exc, {}, {})
        ELSE Outcome(302, "None", {}, {nextRecordId},
                tasks, records @@ (nextRecordId :> Row(f.inst)))

\* /records/{id}/edit/
edit_record(u, id, method, t, d, w, ds) ==
    IF id \notin RecordQuerySet(u) THEN Answer(404, "None", {}, {})
    ELSE
    LET f == TimeRecordForm_is_valid(u, Loaded(records[id]), t, d, w, ds, today)
        sv == TimeRecord_save(f.inst, today)
    IN  IF method = "GET" THEN Answer(200, "None", {}, {id})
        ELSE IF f.exc # "None" THEN Answer(500, f.exc, {}, {})
        ELSE IF f.errors # {} THEN Answer(200, "None", f.errors, {id})
        ELSE IF sv.exc # "None" THEN Answer(500, sv.exc, {}, {})
        ELSE Outcome(302, "None", {}, {id},
                tasks, [records EXCEPT ![id] = Row(f.inst)])

\* ------------------------------------------------------------------- admin
\* the admin change form of an existing Task
TaskAdmin_change(id, o, description, active) ==
    LET errs == TaskDescriptionErrors(description) IN
    IF id \notin DOMAIN tasks THEN Answer(404, "None", {}, {})
    ELSE IF errs # {} THEN Answer(200, "None", errs, {id})
    ELSE Outcome(302, "None", {}, {id},
            [tasks EXCEPT ![id] = TaskAdmin_save(@, o, description, active)],
            records)

\* ------------------------------------------------------- direct model save
\* TimeRecord.objects.create(task=..., record_date=..., worked_time=...,
\* work_description=...) outside any request
TimeRecord_objects_create(t, d, w, ds) ==
    LET inst == Instance(t, "date", d, "val", w, ds)
        sv == TimeRecord_save(inst, today)
    IN  IF sv.exc # "None" THEN Answer(0, sv.exc, sv.errors, {})
        ELSE Outcome(0, "None", {}, {nextRecordId},
                tasks, records @@ (nextRecordId :> Row(inst)))

\* ---------------------------------------------------------------- dates
\* A date is a day number; day 0 is Saturday 31 December 2022, so that the
\* first Tick enters a new month and year within the same week and the
\* second one enters a new week.  EpochOrdinal is
\* date(2022, 12, 31).toordinal().
EpochOrdinal == 738520

\* datetime.date: the proleptic Gregorian calendar
IsLeap(y) == y % 4 = 0 /\ (y % 100 # 0 \/ y % 400 = 0)

DaysInMonth(y, m) ==
    IF m = 2 THEN (IF IsLeap(y) THEN 29 ELSE 28)
    ELSE IF m \in {4, 6, 9, 11} THEN 30 ELSE 31

DaysBeforeYear(y) ==
    (y - 1) * 365 + ((y - 1) \div 4) - ((y - 1) \div 100) + ((y - 1) \div 400)

\* the days of the year before the first of month m
DaysBeforeMonth(y, m) ==
    <<0, 31, 59, 90, 120, 151, 181, 212, 243, 273, 304, 334>>[m]
    + (IF m > 2 /\ IsLeap(y) THEN 1 ELSE 0)

\* date(y, m, d) as a day number
MakeDate(y, m, d) ==
    DaysBeforeYear(y) + DaysBeforeMonth(y, m) + d - EpochOrdinal

\* date.year, date.month
DateYear(n) ==
    LET o == n + EpochOrdinal
    IN  CHOOSE y \in (o \div 366)..((o \div 365) + 1) :
            DaysBeforeYear(y) < o /\ o <= DaysBeforeYear(y + 1)

DateMonth(n) ==
    LET y == DateYear(n)
        k == n + EpochOrdinal - DaysBeforeYear(y)
    IN  CHOOSE m \in 1..12 :
            DaysBeforeMonth(y, m) < k
            /\ k <= DaysBeforeMonth(y, m) + DaysInMonth(y, m)

\* date.isoweekday() % 7 in place of weekday(): Sunday is 0
weekday_sunday(n) == (n + EpochOrdinal) % 7

\* date.weekday(): Monday is 0
weekday(n) == (n + EpochOrdinal + 6) % 7

\* today - timedelta(days=today.weekday())
week_start(now) == now - weekday(now)

\* today.replace(day=1)
month_start(now) == MakeDate(DateYear(now), DateMonth(now), 1)

\* 'last_month' without the January branch: the year is not stepped back
last_month_start_same_year(now) ==
    IF DateMonth(now) = 1 THEN MakeDate(DateYear(now), 12, 1)
    ELSE MakeDate(DateYear(now), DateMonth(now) - 1, 1)

\* filter_period, 'last_month': the first day of the month before
last_month_start(now) ==
    IF DateMonth(now) = 1 THEN MakeDate(DateYear(now) - 1, 12, 1)
    ELSE MakeDate(DateYear(now), DateMonth(now) - 1, 1)

\* 'last_month' without the step back of a day: it ends on the first of
\* this month
last_month_end_first(now) == month_start(now)

\* today.replace(day=1) - timedelta(days=1)
last_month_end(now) == month_start(now) - 1

\* the choices of TimeRecordFilter.period
PeriodChoices == {"today", "yesterday", "this_week", "last_week",
                  "this_month", "last_month"}

\* the values a request carries as ?period=: the choices, no value, and a
\* name that is no choice
Periods == PeriodChoices \cup {"", "next_week"}

\* TimeRecordFilter.filter_period over the rows `rows` of the queryset
filter_period(rows, value, now) ==
    LET yesterday == now - 1
        this_week_start == now - weekday(now)
        last_week_start == now - (weekday(now) + 7)
        last_week_end == last_week_start + 6
        this_month_start == month_start(now)
        prev_month_start == last_month_start(now)
        prev_month_end == last_month_end(now)
    IN  IF value = "today"
        THEN {r \in rows : records[r].record_date = now}
        ELSE IF value = "yesterday"
        THEN {r \in rows : records[r].record_date = yesterday}
        ELSE IF value = "this_week"
        THEN {r \in rows : records[r].record_date >= this_week_start}
        ELSE IF value = "last_week"
        THEN {r \in rows : /\ records[r].record_date >= last_week_start
                           /\ records[r].record_date <= last_week_end}
        ELSE IF value = "this_month"
        THEN {r \in rows : records[r].record_date >= this_month_start}
        ELSE IF value = "last_month"
        THEN {r \in rows : /\ records[r].record_date >= prev_month_start
                           /\ records[r].record_date <= prev_month_end}
        ELSE rows

\* ----------------------------------------------------------- aggregates
\* aggregate(total=Sum('worked_time'))['total']: None over no rows
RECURSIVE SumWorkedTime(_)
SumWorkedTime(rows) ==
    IF rows = {} THEN 0
    ELSE LET r == CHOOSE r \in rows : TRUE
         IN  records[r].worked_time + SumWorkedTime(rows \ {r})

Aggregate_Sum(rows) ==
    IF rows = {} THEN [null |-> TRUE, seconds |-> 0]
    ELSE [null |-> FALSE, seconds |-> SumWorkedTime(rows)]

\* `total or timedelta(0)`: None and the zero duration are falsy
OrZero(total) == IF total.null \/ total.seconds = 0 THEN 0 ELSE total.seconds

SecondsPerHour == 3600

\* total_seconds() / 3600, kept exact as seconds over 3600
Hours(seconds) == [seconds |-> seconds, per |-> SecondsPerHour]

\* total_worked_time over TimeRecord.objects instead of self.time_records
total_worked_time_all(t) == OrZero(Aggregate_Sum(DOMAIN records))

\* Task.total_worked_time
total_worked_time(t) ==
    OrZero(Aggregate_Sum({r \in DOMAIN records : records[r].task = t}))

\* TimeRecord.worked_hours: f"{hours:02d}:{minutes:02d}" as its characters
Digit(d) == <<"0", "1", "2", "3", "4", "5", "6", "7", "8", "9">>[d + 1]

RECURSIVE Decimal(_)
Decimal(n) == IF n < 10 THEN <<Digit(n)>>
              ELSE Decimal(n \div 10) \o <<Digit(n % 10)>>

\* format(n, "02d")
Format02d(n) == IF n < 10 THEN <<"0">> \o Decimal(n) ELSE Decimal(n)

\* worked_hours with the minutes rounded to the nearest instead of cut
worked_hours_rounded(seconds) ==
    LET hours == seconds \div 3600
        minutes == ((seconds % 3600) + 30) \div 60
    IN  Format02d(hours) \o <<":">> \o Format02d(minutes)

worked_hours(seconds) ==
    LET hours == seconds \div 3600
        minutes == (seconds % 3600) \div 60
    IN  Format02d(hours) \o <<":">> \o Format02d(minutes)

\* order_by('-creation_date'): creation_date is set once, at creation, and
\* ids are handed out in creation order
RECURSIVE OrderByCreationDesc(_)
OrderByCreationDesc(ids) ==
    IF ids = {} THEN <<>>
    ELSE LET m == CHOOSE m \in ids : \A i \in ids : i <= m
         IN  <<m>> \o OrderByCreationDesc(ids \ {m})

\* the queryset without the slice
Slice_all(seq, limit) == seq

\* queryset[:limit]
Slice(seq, limit) == IF Len(seq) <= limit THEN seq ELSE SubSeq(seq, 1, limit)

RecentTasksLimit == 5
RecentRecordsLimit == 10

\* --------------------------------------------------------- read handlers
\* GET /api/tasks/active/
TaskViewSet_active(u) ==
    Answer(200, "None", {}, {t \in TaskQuerySet(u) : tasks[t].active})

\* inactive() with the filter of active(): filter(active=True)
TaskViewSet_inactive_same(u) ==
    Answer(200, "None", {}, {t \in TaskQuerySet(u) : tasks[t].active})

\* GET /api/tasks/inactive/
TaskViewSet_inactive(u) ==
    Answer(200, "None", {}, {t \in TaskQuerySet(u) : ~tasks[t].active})

\* GET /api/records/today/
TimeRecordViewSet_today(u) ==
    Answer(200, "None", {},
           {r \in RecordQuerySet(u) : records[r].record_date = today})

\* GET /api/records/this_week/
TimeRecordViewSet_this_week(u) ==
    LET start == week_start(today)
    IN  Answer(200, "None", {},
               {r \in RecordQuerySet(u) : records[r].record_date >= start})

\* GET /api/records/this_month/
TimeRecordViewSet_this_month(u) ==
    LET start == month_start(today)
    IN  Answer(200, "None", {},
               {r \in RecordQuerySet(u) : records[r].record_date >= start})

\* GET /api/records/?period=value : the filterset form validates the value
\* against the choices of the ChoiceFilter before any filter runs, and an
\* invalid form is answered 400; a filter with an empty value is skipped
TimeRecordViewSet_list_period(u, value) ==
    IF value = "" THEN Answer(200, "None", {}, RecordQuerySet(u))
    ELSE IF value \notin PeriodChoices
    THEN Answer(400, "ValidationError",
                {Err("period", "invalid_choice", value)}, {})
    ELSE Answer(200, "None", {},
                filter_period(RecordQuerySet(u), value, today))

\* summary over TimeRecord.objects.all() instead of get_queryset()
TimeRecordViewSet_summary_all(u) ==
    LET rows == DOMAIN records
        ws == week_start(today)
        week == {r \in rows : records[r].record_date >= ws}
        ms == month_start(today)
        month == {r \in rows : records[r].record_date >= ms}
    IN  [total_hours |-> Hours(OrZero(Aggregate_Sum(rows))),
         week_hours |-> Hours(OrZero(Aggregate_Sum(week))),
         month_hours |-> Hours(OrZero(Aggregate_Sum(month))),
         total_records |-> Cardinality(rows)]

\* GET /api/records/summary/
TimeRecordViewSet_summary(u) ==
    LET rows == RecordQuerySet(u)
        ws == week_start(today)
        week == {r \in rows : records[r].record_date >= ws}
        ms == month_start(today)
        month == {r \in rows : records[r].record_date >= ms}
    IN  [total_hours |-> Hours(OrZero(Aggregate_Sum(rows))),
         week_hours |-> Hours(OrZero(Aggregate_Sum(week))),
         month_hours |-> Hours(OrZero(Aggregate_Sum(month))),
         total_records |-> Cardinality(rows)]

\* GET /api/dashboard/
DashboardViewSet_list(u) ==
    LET own == {t \in DOMAIN tasks : tasks[t].responsible_user = u}
        rows == {r \in DOMAIN records :
                    /\ records[r].task \in DOMAIN tasks
                    /\ tasks[records[r].task].responsible_user = u}
        ws == week_start(today)
        week == {r \in rows : records[r].record_date >= ws}
        ms == month_start(today)
        month == {r \in rows : records[r].record_date >= ms}
    IN  [total_tasks |-> Cardinality(own),
         active_tasks |-> Cardinality({t \in own : tasks[t].active}),
         total_worked_hours |-> Hours(OrZero(Aggregate_Sum(rows))),
         hours_this_week |-> Hours(OrZero(Aggregate_Sum(week))),
         hours_this_month |-> Hours(OrZero(Aggregate_Sum(month))),
         recent_tasks |-> Slice(OrderByCreationDesc(own), RecentTasksLimit),
         recent_records |->
             Slice(OrderByCreationDesc(rows), RecentRecordsLimit)]

\* GET / : the context of the dashboard page
dashboard(u) ==
    LET own == {t \in DOMAIN tasks : tasks[t].responsible_user = u}
        rows == {r \in DOMAIN records :
                    /\ records[r].task \in DOMAIN tasks
                    /\ tasks[records[r].task].responsible_user = u}
        ws == week_start(today)
        week == {r \in rows : records[r].record_date >= ws}
    IN  [total_tasks |-> Cardinality(own),
         active_tasks |-> Cardinality({t \in own : tasks[t].active}),
         total_hours |-> Hours(OrZero(Aggregate_Sum(rows))),
         week_hours |-> Hours(OrZero(Aggregate_Sum(week))),
         recent_tasks |-> Slice(OrderByCreationDesc(own), RecentTasksLimit),
         recent_records |->
             Slice(OrderByCreationDesc(rows), RecentRecordsLimit)]

\* GET /records/?period=value : the periods record_list knows
record_list_period(u, value) ==
    LET rows == RecordQuerySet(u)
        ws == week_start(today)
        ms == month_start(today)
    IN  Answer(200, "None", {},
           IF value = "today"
           THEN {r \in rows : records[r].record_date = today}
           ELSE IF value = "this_week"
           THEN {r \in rows : records[r].record_date >= ws}
           ELSE IF value = "this_month"
           THEN {r \in rows : records[r].record_date >= ms}
           ELSE rows)

\* ---------------------------------------------------------------- requests
\* the record dates a request carries: yesterday, today, tomorrow
DateInputs == {d \in Dates : d + 1 >= today /\ d <= today + 1}

NoTaskInput == [o |-> "u1", description |-> "a", active |-> TRUE]
NoRecordInput == [t |-> 1, d |-> today, w |-> MinWorkedTime, ds |-> "w"]

\* task bodies: every supplied owner and flag with a good description, and a
\* blank description
TaskInputs ==
    [o : Users, description : {"a"}, active : BOOLEAN]
    \cup {[NoTaskInput EXCEPT !.description = ds] : ds \in Descriptions}

\* record bodies: every task and date with a good duration, every task and
\* duration with today's date, and a blank description
RecordInputs ==
    [t : TaskIds, d : DateInputs, w : {MinWorkedTime}, ds : {"w"}]
    \cup [t : TaskIds, d : {today}, w : WorkedTimes, ds : {"w"}]
    \cup {[NoRecordInput EXCEPT !.ds = ds] : ds \in WorkDescriptions}

\* PUT carries every field, PATCH one of them
TaskWrites ==
    {[partial |-> FALSE, given |-> TaskFields, in |-> i] : i \in TaskInputs}
    \cup {[partial |-> TRUE, given |-> {"description"},
           in |-> [NoTaskInput EXCEPT !.o = o, !.description = ds]] :
                o \in Users, ds \in Descriptions}
    \cup {[partial |-> TRUE, given |-> {"active"},
           in |-> [NoTaskInput EXCEPT !.active = a]] : a \in BOOLEAN}

RecordWrites ==
    {[partial |-> FALSE, given |-> RecordFields, in |-> i] : i \in RecordInputs}
    \cup {[partial |-> TRUE, given |-> {"task_id"},
           in |-> [NoRecordInput EXCEPT !.t = t]] : t \in TaskIds}
    \cup {[partial |-> TRUE, given |-> {"record_date"},
           in |-> [NoRecordInput EXCEPT !.d = d]] : d \in DateInputs}
    \cup {[partial |-> TRUE, given |-> {"worked_time"},
           in |-> [NoRecordInput EXCEPT !.w = w]] : w \in WorkedTimes}
    \cup {[partial |-> TRUE, given |-> {"work_description"},
           in |-> [NoRecordInput EXCEPT !.ds = ds]] : ds \in WorkDescriptions}

\* a GET carries no form data
TaskPosts ==
    {[method |-> "POST", in |-> i] : i \in TaskInputs}
    \cup {[method |-> "GET", in |-> NoTaskInput]}

RecordPosts ==
    {[method |-> "POST", in |-> i] : i \in RecordInputs}
    \cup {[method |-> "GET", in |-> NoRecordInput]}

\* a request for an entity the lookup does not find is answered before its
\* body is read: one body stands for all
TaskWritesTo(u, id) ==
    IF id \in TaskQuerySet(u) THEN TaskWrites
    ELSE {[partial |-> FALSE, given |-> TaskFields, in |-> NoTaskInput]}

TaskPostsTo(u, id) ==
    IF id \in TaskQuerySet(u) THEN TaskPosts
    ELSE {[method |-> m, in |-> NoTaskInput] : m \in Methods}

RecordWritesTo(u, id) ==
    IF id \in RecordQuerySet(u) THEN RecordWrites
    ELSE {[partial |-> FALSE, given |-> RecordFields, in |-> NoRecordInput]}

RecordPostsTo(u, id) ==
    IF id \in RecordQuerySet(u) THEN RecordPosts
    ELSE {[method |-> m, in |-> NoRecordInput] : m \in Methods}

AdminInputsTo(id) == IF id \in DOMAIN tasks THEN TaskInputs ELSE {NoTaskInput}

\* ----------------------------------------------------------------- actions
\* a handler's outcome becomes the next state; ids are handed out in order
\* and never reused
Do(out) ==
    \E o \in {out} :
        /\ DOMAIN o.tasks \subseteq TaskIds
        /\ DOMAIN o.records \subseteq RecordIds
        /\ tasks' = o.tasks
        /\ records' = o.records
        /\ nextTaskId' = IF nextTaskId \in DOMAIN o.tasks THEN nextTaskId + 1
                         ELSE nextTaskId
        /\ nextRecordId' = IF nextRecordId \in DOMAIN o.records
                           THEN nextRecordId + 1 ELSE nextRecordId
        /\ UNCHANGED <<today, inflight>>

ApiTaskList(u) == Do(TaskViewSet_list(u))
ApiTaskRetrieve(u, id) == Do(TaskViewSet_retrieve(u, id))
ApiTaskCreate(u, x) == Do(TaskViewSet_create(u, x.o, x.description, x.active))
ApiTaskUpdate(u, id, x) ==
    Do(TaskViewSet_update(u, id, x.in.o, x.partial, x.given,
                          x.in.description, x.in.active))
ApiTaskDelete(u, id) == Do(TaskViewSet_destroy(u, id))
ApiToggleStatus(u, id) == Do(TaskViewSet_toggle_status(u, id))
ApiRecordList(u) == Do(TimeRecordViewSet_list(u))
ApiRecordRetrieve(u, id) == Do(TimeRecordViewSet_retrieve(u, id))
ApiRecordCreate(u, x) == Do(TimeRecordViewSet_create(u, x.t, x.d, x.w, x.ds))
ApiRecordUpdate(u, id, x) ==
    Do(TimeRecordViewSet_update(u, id, x.partial, x.given,
                                x.in.t, x.in.d, x.in.w, x.in.ds))
ApiRecordDelete(u, id) == Do(TimeRecordViewSet_destroy(u, id))
WebTaskList(u) == Do(task_list(u))
WebTaskDetail(u, id) == Do(task_detail(u, id))
WebNewTask(u, x) ==
    Do(new_task(u, x.method, x.in.o, x.in.description, x.in.active))
WebEditTask(u, id, x) ==
    Do(edit_task(u, id, x.method, x.in.o, x.in.description, x.in.active))
WebRecordList(u) == Do(record_list(u))
WebNewRecord(u, x) ==
    Do(new_record(u, x.method, x.in.t, x.in.d, x.in.w, x.in.ds))
WebEditRecord(u, id, x) ==
    Do(edit_record(u, id, x.method, x.in.t, x.in.d, x.in.w, x.in.ds))
AdminChangeTask(id, x) == Do(TaskAdmin_change(id, x.o, x.description, x.active))
ModelSave(x) == Do(TimeRecord_objects_create(x.t, x.d, x.w, x.ds))

Next ==
    \/ Tick
    \/ \E u \in Users : ApiTaskList(u)
    \/ \E u \in Users, id \in TaskIds : ApiTaskRetrieve(u, id)
    \/ \E u \in Users, x \in TaskInputs : ApiTaskCreate(u, x)
    \/ \E u \in Users, id \in TaskIds : \E x \in TaskWritesTo(u, id) :
          ApiTaskUpdate(u, id, x)
    \/ \E u \in Users, id \in TaskIds : ApiTaskDelete(u, id)
    \/ \E u \in Users, id \in TaskIds : ApiToggleStatus(u, id)
    \/ \E u \in Users : ApiRecordList(u)
    \/ \E u \in Users, id \in RecordIds : ApiRecordRetrieve(u, id)
    \/ \E u \in Users, x \in RecordInputs : ApiRecordCreate(u, x)
    \/ \E u \in Users, id \in RecordIds : \E x \in RecordWritesTo(u, id) :
          ApiRecordUpdate(u, id, x)
    \/ \E u \in Users, id \in RecordIds : ApiRecordDelete(u, id)
    \/ \E u \in Users : WebTaskList(u)
    \/ \E u \in Users, id \in TaskIds : WebTaskDetail(u, id)
    \/ \E u \in Users, x \in TaskPosts : WebNewTask(u, x)
    \/ \E u \in Users, id \in TaskIds : \E x \in TaskPostsTo(u, id) :
          WebEditTask(u, id, x)
    \/ \E u \in Users : WebRecordList(u)
    \/ \E u \in Users, x \in RecordPosts : WebNewRecord(u, x)
    \/ \E u \in Users, id \in RecordIds : \E x \in RecordPostsTo(u, id) :
          WebEditRecord(u, id, x)
    \/ \E id \in TaskIds : \E x \in AdminInputsTo(id) : AdminChangeTask(id, x)
    \/ \E x \in RecordInputs : ModelSave(x)

Spec == Init /\ [][Next]_vars

\* a GET handler answers and writes nothing
Respond(body) ==
    /\ body = body
    /\ UNCHANGED vars

Reads ==
    \/ \E u \in Users : Respond(TaskViewSet_active(u))
    \/ \E u \in Users : Respond(TaskViewSet_inactive(u))
    \/ \E u \in Users : Respond(TimeRecordViewSet_today(u))
    \/ \E u \in Users : Respond(TimeRecordViewSet_this_week(u))
    \/ \E u \in Users : Respond(TimeRecordViewSet_this_month(u))
    \/ \E u \in Users, value \in Periods :
          Respond(TimeRecordViewSet_list_period(u, value))
    \/ \E u \in Users : Respond(TimeRecordViewSet_summary(u))
    \/ \E u \in Users : Respond(DashboardViewSet_list(u))
    \/ \E u \in Users : Respond(dashboard(u))
    \/ \E u \in Users, value \in Periods :
          Respond(record_list_period(u, value))

\* the whole program: the writes of Next and the read-only endpoints
NextAll == Next \/ Reads

ReadSpec == Init /\ [][NextAll]_vars

\* ------------------------------------------------- requests of two users
\* The requests of the users on one day, each told by its route and its
\* arguments: the task or record it names, the task a record is put on, the
\* flag of a task.
TaskRoutes == {"api_task_create", "web_new_task"}

TaskIdRoutes ==
    {"api_task_retrieve", "api_task_update", "api_task_destroy",
     "api_toggle_status", "web_task_detail", "web_edit_task"}

RecordRoutes == {"api_record_create", "web_new_record"}

RecordIdRoutes == {"api_record_retrieve", "api_record_destroy"}

RecordWriteRoutes == {"api_record_update", "web_edit_record"}

ListRoutes ==
    {"api_task_list", "api_task_active", "api_task_inactive",
     "api_record_list", "api_record_this_week", "web_task_list",
     "web_record_list"}

DataRoutes == {"api_summary", "api_dashboard", "web_dashboard"}

UserRequests ==
    [route : TaskRoutes, id : {1}, t : {1}, active : BOOLEAN]
    \cup [route : TaskIdRoutes, id : TaskIds, t : {1}, active : {FALSE}]
    \cup [route : RecordRoutes, id : {1}, t : TaskIds, active : {FALSE}]
    \cup [route : RecordIdRoutes, id : RecordIds, t : {1}, active : {FALSE}]
    \cup [route : RecordWriteRoutes, id : RecordIds, t : TaskIds,
          active : {FALSE}]
    \cup [route : ListRoutes \cup DataRoutes, id : {1}, t : {1},
          active : {FALSE}]

\* the router: the handler a request of user u goes to
Handle(u, y) ==
    CASE y.route = "api_task_list" -> TaskViewSet_list(u)
      [] y.route = "api_task_active" -> TaskViewSet_active(u)
      [] y.route = "api_task_inactive" -> TaskViewSet_inactive(u)
      [] y.route = "api_task_create" ->
            TaskViewSet_create(u, u, "a", y.active)
      [] y.route = "api_task_retrieve" -> TaskViewSet_retrieve(u, y.id)
      [] y.route = "api_task_update" ->
            TaskViewSet_update(u, y.id, u, FALSE, TaskFields, "a", y.active)
      [] y.route = "api_task_destroy" -> TaskViewSet_destroy(u, y.id)
      [] y.route = "api_toggle_status" -> TaskViewSet_toggle_status(u, y.id)
      [] y.route = "api_record_list" -> TimeRecordViewSet_list(u)
      [] y.route = "api_record_this_week" -> TimeRecordViewSet_this_week(u)
      [] y.route = "api_record_create" ->
            TimeRecordViewSet_create(u, y.t, today, MinWorkedTime, "w")
      [] y.route = "api_record_retrieve" -> TimeRecordViewSet_retrieve(u, y.id)
      [] y.route = "api_record_update" ->
            TimeRecordViewSet_update(u, y.id, FALSE, RecordFields,
                                     y.t, today, MinWorkedTime, "w")
      [] y.route = "api_record_destroy" -> TimeRecordViewSet_destroy(u, y.id)
      [] y.route = "api_summary" -> TimeRecordViewSet_summary(u)
      [] y.route = "api_dashboard" -> DashboardViewSet_list(u)
      [] y.route = "web_dashboard" -> dashboard(u)
      [] y.route = "web_task_list" -> task_list(u)
      [] y.route = "web_new_task" -> new_task(u, "POST", u, "a", y.active)
      [] y.route = "web_task_detail" -> task_detail(u, y.id)
      [] y.route = "web_edit_task" ->
            edit_task(u, y.id, "POST", u, "a", y.active)
      [] y.route = "web_record_list" -> record_list(u)
      [] y.route = "web_new_record" ->
            new_record(u, "POST", y.t, today, MinWorkedTime, "w")
      [] y.route = "web_edit_record" ->
            edit_record(u, y.id, "POST", y.t, today, MinWorkedTime, "w")

UserRequest(u, y) ==
    IF y.route \in DataRoutes THEN Respond(Handle(u, y))
    ELSE Do(Handle(u, y))

IsolationNext == \E u \in Users, y \in UserRequests : UserRequest(u, y)

IsolationSpec == Init /\ [][IsolationNext]_vars

\* ------------------------------------------------------------- the totals
\* The records behind the totals: accepted creates, updates (which may move
\* a record to another task of the user) and deletes of records, creates and
\* deletes of tasks, with durations of 1h30 and 2h as in
\* test_task_total_worked_time.
TotalsTimes == {5400, 7200}

StoreWithin(out, taskIds, recordIds) ==
    \E o \in {out} :
        /\ DOMAIN o.tasks \subseteq taskIds
        /\ DOMAIN o.records \subseteq recordIds
        /\ tasks' = o.tasks
        /\ records' = o.records
        /\ nextTaskId' = IF nextTaskId \in DOMAIN o.tasks THEN nextTaskId + 1
                         ELSE nextTaskId
        /\ nextRecordId' = IF nextRecordId \in DOMAIN o.records
                           THEN nextRecordId + 1 ELSE nextRecordId
        /\ UNCHANGED <<today, inflight>>

Store(out) == StoreWithin(out, TaskIds, 1..MaxTotalsRecords)

TotalsTaskCreate(u) == Store(TaskViewSet_create(u, u, "a", TRUE))
TotalsTaskDelete(u, id) == Store(TaskViewSet_destroy(u, id))
TotalsRecordCreate(u, t, w) ==
    Store(TimeRecordViewSet_create(u, t, today, w, "w"))
TotalsRecordUpdate(u, id, t, w) ==
    Store(TimeRecordViewSet_update(u, id, FALSE, RecordFields, t, today, w, "w"))
TotalsRecordDelete(u, id) == Store(TimeRecordViewSet_destroy(u, id))

\* each user writes to their own tasks and records; what a request for a
\* foreign id does is the business of Next
TotalsNext ==
    \/ \E u \in Users : TotalsTaskCreate(u)
    \/ \E u \in Users : \E id \in TaskQuerySet(u) : TotalsTaskDelete(u, id)
    \/ \E u \in Users : \E t \in TaskQuerySet(u) : \E w \in TotalsTimes :
          TotalsRecordCreate(u, t, w)
    \/ \E u \in Users : \E id \in RecordQuerySet(u), t \in TaskQuerySet(u) :
          \E w \in TotalsTimes : TotalsRecordUpdate(u, id, t, w)
    \/ \E u \in Users : \E id \in RecordQuerySet(u) :
          TotalsRecordDelete(u, id)
    \/ \E t \in DOMAIN tasks : Respond(total_worked_time(t))

TotalsSpec == Init /\ [][TotalsNext]_vars

\* ------------------------------------------------------------ the summary
\* What the summary counts: tasks of both users, records created on the day
\* of the request as the days pass.
SummaryRecordCreate(u, t, w) ==
    Store(TimeRecordViewSet_create(u, t, today, w, "w"))

SummaryNext ==
    \/ Tick
    \/ \E u \in Users : TotalsTaskCreate(u)
    \/ \E u \in Users : \E t \in TaskQuerySet(u) : \E w \in TotalsTimes :
          SummaryRecordCreate(u, t, w)
    \/ \E u \in Users : Respond(TimeRecordViewSet_summary(u))

SummarySpec == Init /\ [][SummaryNext]_vars

\* --------------------------------------------------------- the dashboards
\* What the dashboards show: the second user creates a task and a record on
\* the empty tables, then the first user creates tasks, active or not, and
\* one-hour records on the oldest of them as the days pass, up to one task
\* and one record more than the recent lists hold.
DashStore(out) == StoreWithin(out, 1..MaxDashTasks, 1..MaxDashRecords)

DashTaskCreate(u, active) == DashStore(TaskViewSet_create(u, u, "a", active))

DashRecordCreate(u, t, w) ==
    DashStore(TimeRecordViewSet_create(u, t, today, w, "w"))

\* the task of the user that was created first
OldestTask(u) == {t \in TaskQuerySet(u) : \A o \in TaskQuerySet(u) : t <= o}

DashNext ==
    \/ Tick
    \/ nextTaskId = 1 /\ DashTaskCreate("u2", TRUE)
    \/ nextRecordId = 1 /\ \E t \in OldestTask("u2") :
          DashRecordCreate("u2", t, 7200)
    \/ nextTaskId > 1 /\ \E active \in BOOLEAN : DashTaskCreate("u1", active)
    \/ nextRecordId > 1 /\ \E t \in OldestTask("u1") :
          DashRecordCreate("u1", t, SecondsPerHour)
    \/ \E u \in Users : Respond(DashboardViewSet_list(u))
    \/ \E u \in Users : Respond(dashboard(u))

DashSpec == Init /\ [][DashNext]_vars

\* ------------------------------------------------------- the formatting
\* worked_hours is a function of the stored worked_time: one record whose
\* worked_time goes through durations of hours, minutes and seconds, from
\* the minimum of a minute to more than 99 hours.
FmtTimes ==
    {h * 3600 + m * 60 + sec :
        h \in {0, 1, 2, 9, 10, 23, 99, 100}, m \in {0, 1, 5, 30, 59},
        sec \in {0, 1, 59}}
    \ 0..(MinWorkedTime - 1)

FmtInit ==
    /\ today = 0
    /\ tasks = (1 :> Task("u1", "a", TRUE))
    /\ \E w \in FmtTimes : records = (1 :> TimeRecord(1, 0, w, "w"))
    /\ nextTaskId = 2
    /\ nextRecordId = 2
    /\ inflight = <<>>

\* PATCH /api/records/{id}/ with a worked_time
FmtRecordTime(u, id, w) ==
    Store(TimeRecordViewSet_update(u, id, TRUE, {"worked_time"},
                                   1, today, w, "w"))

FmtNext ==
    \/ \E u \in Users : \E id \in RecordQuerySet(u) : \E w \in FmtTimes :
          FmtRecordTime(u, id, w)
    \/ \E r \in DOMAIN records : Respond(worked_hours(records[r].worked_time))

FmtSpec == FmtInit /\ [][FmtNext]_vars

\* ------------------------------------------------------- the record dates
\* Every way a record_date is written, as the server date moves forward:
\* creates and updates of records by API, by the web forms and by a direct
\* model save, with dates of yesterday, today and tomorrow, on the tasks the
\* users create; and the two listings that filter on a lower bound only.
DatesNext ==
    \/ Tick
    \/ \E u \in Users, x \in TaskInputs : ApiTaskCreate(u, x)
    \/ \E u \in Users, x \in RecordInputs : ApiRecordCreate(u, x)
    \/ \E u \in Users, id \in RecordIds : \E x \in RecordWritesTo(u, id) :
          ApiRecordUpdate(u, id, x)
    \/ \E u \in Users, id \in RecordIds : ApiRecordDelete(u, id)
    \/ \E u \in Users, x \in RecordPosts : WebNewRecord(u, x)
    \/ \E u \in Users, id \in RecordIds : \E x \in RecordPostsTo(u, id) :
          WebEditRecord(u, id, x)
    \/ \E x \in RecordInputs : ModelSave(x)
    \/ \E u \in Users : Respond(TimeRecordViewSet_this_week(u))
    \/ \E u \in Users : Respond(TimeRecordViewSet_this_month(u))

DatesSpec == Init /\ [][DatesNext]_vars

\* ------------------------------------------------- requests that overlap
\* A view that updates a task reads the row, changes the instance it holds
\* and writes the instance back; each query is a transaction of its own, so
\* the queries of two requests interleave.  One task of the first user;
\* toggle_status and PATCH /api/tasks/{id}/ with a description, by either
\* user, each in two steps.
RaceInit ==
    /\ tasks = (1 :> Task("u1", "a", TRUE))
    /\ records = <<>>
    /\ nextTaskId = 2
    /\ nextRecordId = 1
    /\ today = 0
    /\ inflight = <<>>

\* save(update_fields=...): only the columns the request changed are written
Model_save_update_fields(stored, loaded, instance) ==
    [f \in DOMAIN stored |->
        IF instance[f] # loaded[f] THEN instance[f] ELSE stored[f]]

\* Model.save() of the instance a request holds: every column of the row is
\* written from the instance
Model_save(stored, loaded, instance) == instance

\* self.get_object(): the row as it is now, or 404; `after` is the requests
\* that had answered by then
get_object(u, id, route, description) ==
    /\ Len(inflight) < MaxRequests
    /\ IF id \in TaskQuerySet(u)
       THEN inflight' = Append(inflight,
                [route |-> route, id |-> id, loaded |-> tasks[id],
                 description |-> description,
                 after |-> {q \in DOMAIN inflight : inflight[q].pc = "done"},
                 pc |-> "loaded"])
       ELSE UNCHANGED inflight
    /\ UNCHANGED <<tasks, records, nextTaskId, nextRecordId, today>>

\* the instance of request q after the view has changed it: toggle_status
\* flips active, the serializer's update sets the validated description
instance(q) ==
    IF inflight[q].route = "toggle_status"
    THEN ToggleActive(inflight[q].loaded)
    ELSE TaskSerializer_update(inflight[q].loaded,
                               inflight[q].loaded.responsible_user,
                               {"description"}, inflight[q].description,
                               inflight[q].loaded.active)

\* task.save() in toggle_status, instance.save() in the serializer's update
save(q, route) ==
    /\ inflight[q].route = route
    /\ inflight[q].pc = "loaded"
    /\ tasks' = [tasks EXCEPT ![inflight[q].id] =
                    Model_save(@, inflight[q].loaded, instance(q))]
    /\ inflight' = [inflight EXCEPT ![q].pc = "done"]
    /\ UNCHANGED <<records, nextTaskId, nextRecordId, today>>

RaceNext ==
    \/ \E u \in Users, id \in TaskIds : get_object(u, id, "toggle_status", "")
    \/ \E q \in DOMAIN inflight : save(q, "toggle_status")
    \/ \E u \in Users, id \in TaskIds : get_object(u, id, "partial_update", "b")
    \/ \E q \in DOMAIN inflight : save(q, "partial_update")

RaceSpec == RaceInit /\ [][RaceNext]_vars

\* ------------------------------------------------------------ the periods
\* The period filters are functions of today and of the date of a record:
\* one task with one record, today any day from late November 2023 to early
\* April 2024 (a turn of the year and a leap February), the record dated up
\* to MaxCalBack days before today.
CalInit ==
    /\ today \in FirstCalDay..MaxCalDay
    /\ tasks = (1 :> Task("u1", "a", TRUE))
    /\ \E d \in (today - MaxCalBack)..today :
          records = (1 :> TimeRecord(1, d, SecondsPerHour, "w"))
    /\ nextTaskId = 2
    /\ nextRecordId = 2
    /\ inflight = <<>>

CalTick ==
    /\ today < MaxCalDay
    /\ records[1].record_date + MaxCalBack > today
    /\ today' = today + 1
    /\ UNCHANGED <<tasks, records, nextTaskId, nextRecordId, inflight>>

\* PATCH /api/records/{id}/ with a record_date
CalRecordDate(u, id, d) ==
    Store(TimeRecordViewSet_update(u, id, TRUE, {"record_date"},
                                   1, d, MinWorkedTime, "w"))

CalNext ==
    \/ CalTick
    \/ \E u \in Users : \E id \in RecordQuerySet(u) :
          \E d \in {today - 1, today} : CalRecordDate(u, id, d)
    \/ \E u \in Users : Respond(TimeRecordViewSet_this_week(u))
    \/ \E u \in Users : Respond(TimeRecordViewSet_this_month(u))
    \/ \E u \in Users, value \in Periods :
          Respond(TimeRecordViewSet_list_period(u, value))
    \/ \E u \in Users, value \in Periods :
          Respond(record_list_period(u, value))
    \/ \E u \in Users : Respond(TimeRecordViewSet_summary(u))
    \/ \E u \in Users : Respond(DashboardViewSet_list(u))
    \/ \E u \in Users : Respond(dashboard(u))

CalSpec == CalInit /\ [][CalNext]_vars

\* =================================================================== claims
\* what the claims speak of, stated on the tables themselves
OwnsTask(u, t) == t \in DOMAIN tasks /\ tasks[t].responsible_user = u

OwnsRecord(u, r) == r \in DOMAIN records /\ OwnsTask(u, records[r].task)

ForeignTask(u, t) == t \in DOMAIN tasks /\ tasks[t].responsible_user # u

ForeignRecord(u, r) ==
    /\ r \in DOMAIN records
    /\ records[r].task \in DOMAIN tasks
    /\ tasks[records[r].task].responsible_user # u

Unchanged(out) == out.tasks = tasks /\ out.records = records

NotFound(out) == out.status = 404 /\ out.ids = {} /\ Unchanged(out)

\* P holds of the outcome of every request user u can make about task id
AllTaskRequests(u, id, P(_)) ==
    /\ P(TaskViewSet_retrieve(u, id))
    /\ P(TaskViewSet_destroy(u, id))
    /\ P(TaskViewSet_toggle_status(u, id))
    /\ P(task_detail(u, id))
    /\ \A x \in TaskWrites :
          P(TaskViewSet_update(u, id, x.in.o, x.partial, x.given,
                               x.in.description, x.in.active))
    /\ \A x \in TaskPosts :
          P(edit_task(u, id, x.method, x.in.o, x.in.description, x.in.active))

\* P holds of the outcome of every request user u can make about record id
AllRecordRequests(u, id, P(_)) ==
    /\ P(TimeRecordViewSet_retrieve(u, id))
    /\ P(TimeRecordViewSet_destroy(u, id))
    /\ \A x \in RecordWrites :
          P(TimeRecordViewSet_update(u, id, x.partial, x.given,
                                     x.in.t, x.in.d, x.in.w, x.in.ds))
    /\ \A x \in RecordPosts :
          P(edit_record(u, id, x.method, x.in.t, x.in.d, x.in.w, x.in.ds))

\* P holds of the outcome of every request of u that names no entity
AllOtherRequests(u, P(_)) ==
    /\ P(TaskViewSet_list(u))
    /\ P(task_list(u))
    /\ P(TimeRecordViewSet_list(u))
    /\ P(record_list(u))
    /\ \A x \in TaskInputs :
          P(TaskViewSet_create(u, x.o, x.description, x.active))
    /\ \A x \in TaskPosts :
          P(new_task(u, x.method, x.in.o, x.in.description, x.in.active))
    /\ \A x \in RecordInputs :
          P(TimeRecordViewSet_create(u, x.t, x.d, x.w, x.ds))
    /\ \A x \in RecordPosts :
          P(new_record(u, x.method, x.in.t, x.in.d, x.in.w, x.in.ds))

\* P holds of the outcome of every request user u can make
AllUserRequests(u, P(_)) ==
    /\ AllOtherRequests(u, P)
    /\ \A id \in TaskIds : AllTaskRequests(u, id, P)
    /\ \A id \in RecordIds : AllRecordRequests(u, id, P)

\* what belongs to the other users is there, unchanged, after the request
OthersUntouched(u, out) ==
    /\ \A t \in DOMAIN tasks :
          tasks[t].responsible_user # u =>
              t \in DOMAIN out.tasks /\ out.tasks[t] = tasks[t]
    /\ \A r \in DOMAIN records :
          ForeignRecord(u, r) =>
              r \in DOMAIN out.records /\ out.records[r] = records[r]

\* C1: ownership isolation.  In every reachable state, for every user u and
\* every request u can make (API and web, every body): a list shows only
\* tasks and records u owns; a request addressing by id a task or record of
\* another user is answered 404, shows nothing and writes nothing; and no
\* request of u changes or removes a task or record of another user.
C1_OwnershipIsolation ==
    \A u \in Users :
        /\ \A id \in TaskViewSet_list(u).ids \cup task_list(u).ids :
              OwnsTask(u, id)
        /\ \A id \in TimeRecordViewSet_list(u).ids \cup record_list(u).ids :
              OwnsRecord(u, id)
        /\ \A id \in TaskIds : ForeignTask(u, id) =>
              AllTaskRequests(u, id, NotFound)
        /\ \A id \in RecordIds : ForeignRecord(u, id) =>
              AllRecordRequests(u, id, NotFound)
        /\ LET Untouched(out) == OthersUntouched(u, out)
           IN  AllUserRequests(u, Untouched)

\* a state where user u addresses a task and a record that another user
\* owns: the answers are 404
C1_Witness ==
    \E u \in Users, t \in TaskIds, r \in RecordIds :
        /\ ForeignTask(u, t)
        /\ ForeignRecord(u, r)
        /\ TaskViewSet_retrieve(u, t).status = 404
        /\ TaskViewSet_destroy(u, t).status = 404
        /\ edit_record(u, r, "POST", t, today, MinWorkedTime, "w").status = 404
        /\ TimeRecordViewSet_destroy(u, r).status = 404

Accepted(out) ==
    out.exc = "None" /\ out.errors = {} /\ out.status \in {0, 200, 201, 302}

\* the request was not carried out and wrote nothing
Refused(out) == Unchanged(out) /\ ~Accepted(out)

\* the answer is a validation error on the field (an API 400 body or a form
\* shown again with the message), and nothing was written
FieldError(out, fields) ==
    /\ out.status \in {200, 400}
    /\ out.exc = "None"
    /\ \E e \in out.errors : e[1] \in fields
    /\ Unchanged(out)

\* the fields of x other than worked_time and record_date are good for u
GoodTaskAndText(u, x) == OwnsTask(u, x.t) /\ x.ds # ""

\* C3: task ownership on record create and update.  For every user u, every
\* task id that does not exist or is owned by someone else, and every other
\* content of the request: API create, API update (PUT or PATCH carrying the
\* task), the web create form and the web edit form answer with a validation
\* error on the task reference and write nothing.
C3_TaskOwnershipValidated ==
    \A u \in Users, t \in TaskIds :
        ~OwnsTask(u, t) =>
            /\ \A x \in RecordInputs : x.t = t =>
                  /\ FieldError(TimeRecordViewSet_create(u, t, x.d, x.w, x.ds),
                                {"task_id"})
                  /\ FieldError(new_record(u, "POST", t, x.d, x.w, x.ds),
                                {"task"})
            /\ \A id \in RecordQuerySet(u) :
                  /\ \A x \in RecordWrites :
                        ("task_id" \in x.given /\ x.in.t = t) =>
                            FieldError(
                                TimeRecordViewSet_update(u, id, x.partial,
                                    x.given, t, x.in.d, x.in.w, x.in.ds),
                                {"task_id"})
                  /\ \A x \in RecordInputs : x.t = t =>
                        FieldError(edit_record(u, id, "POST", t, x.d, x.w, x.ds),
                                   {"task"})

\* C4: worked_time <= 0.  For every record content whose worked_time is zero
\* or negative and whose other fields are good, the model save raises a
\* ValidationError carrying "Worked time must be greater than zero", the web
\* create and edit forms show that message, and nothing is written.
C4_NonPositiveWorkedTime ==
    \A u \in Users, x \in RecordInputs :
        (x.w <= 0 /\ GoodTaskAndText(u, x) /\ x.d <= today) =>
            LET GtZero(out) == /\ Err("worked_time", "gt_zero", 0) \in out.errors
                               /\ Refused(out)
                m == TimeRecord_objects_create(x.t, x.d, x.w, x.ds)
            IN  /\ m.exc = "ValidationError" /\ GtZero(m)
                /\ GtZero(new_record(u, "POST", x.t, x.d, x.w, x.ds))
                /\ \A id \in RecordQuerySet(u) :
                      GtZero(edit_record(u, id, "POST", x.t, x.d, x.w, x.ds))

\* C5: record date boundary.  For every record content whose other fields are
\* good: with a record_date after the current date, the model save raises a
\* ValidationError "Record date cannot be in the future", the web create and
\* edit forms fail with that validation error, and nothing is stored; with a
\* record_date equal to the current date or earlier, the record is stored
\* with that date.
C5_RecordDateBoundary ==
    \A u \in Users, x \in RecordInputs :
        (GoodTaskAndText(u, x) /\ x.w >= MinWorkedTime) =>
            LET Future == Err("record_date", "future", 0)
                m == TimeRecord_objects_create(x.t, x.d, x.w, x.ds)
                n == new_record(u, "POST", x.t, x.d, x.w, x.ds)
            IN  /\ x.d > today =>
                      /\ m.exc = "ValidationError" /\ Future \in m.errors
                      /\ Refused(m)
                      /\ FieldError(n, {"record_date"}) /\ Future \in n.errors
                      /\ \A id \in RecordQuerySet(u) :
                            LET e == edit_record(u, id, "POST",
                                                 x.t, x.d, x.w, x.ds)
                            IN  FieldError(e, {"record_date"})
                                /\ Future \in e.errors
                /\ x.d <= today =>
                      /\ Accepted(m)
                      /\ m.records[nextRecordId].record_date = x.d
                      /\ Accepted(n)
                      /\ n.records[nextRecordId].record_date = x.d
                      /\ \A id \in RecordQuerySet(u) :
                            LET e == edit_record(u, id, "POST",
                                                 x.t, x.d, x.w, x.ds)
                            IN  Accepted(e) /\ e.records[id].record_date = x.d

\* the answer to a worked_time under the minimum: nothing is written, the
\* request is not carried out, the "greater than zero" rule is not what
\* fails, and an answer that is not a server error names the minimum
UnderMinimum(out, w) ==
    /\ Refused(out)
    /\ Err("worked_time", "gt_zero", 0) \notin out.errors
    /\ out.status # 500 => Err("worked_time", "min_value", w) \in out.errors

\* C6: minimum worked_time.  In every reachable state every stored
\* TimeRecord has worked_time >= 1 minute; and a create or update with
\* 0 < worked_time < 1 minute is refused by API create, API update (PUT and
\* PATCH), the web create and edit forms and a direct model save, whatever
\* the other fields hold.
C6_MinimumWorkedTime ==
    /\ \A r \in DOMAIN records : records[r].worked_time >= MinWorkedTime
    /\ \A x \in RecordInputs :
          (0 < x.w /\ x.w < MinWorkedTime) =>
              /\ UnderMinimum(TimeRecord_objects_create(x.t, x.d, x.w, x.ds),
                              x.w)
              /\ \A u \in Users :
                    /\ UnderMinimum(
                          TimeRecordViewSet_create(u, x.t, x.d, x.w, x.ds), x.w)
                    /\ UnderMinimum(
                          new_record(u, "POST", x.t, x.d, x.w, x.ds), x.w)
                    /\ \A id \in RecordQuerySet(u) :
                          UnderMinimum(
                              edit_record(u, id, "POST", x.t, x.d, x.w, x.ds),
                              x.w)
    /\ \A u \in Users, x \in RecordWrites :
          ("worked_time" \in x.given /\ 0 < x.in.w /\ x.in.w < MinWorkedTime) =>
              \A id \in RecordQuerySet(u) :
                  UnderMinimum(
                      TimeRecordViewSet_update(u, id, x.partial, x.given,
                          x.in.t, x.in.d, x.in.w, x.in.ds), x.in.w)

\* a state with a stored record whose owner asks, by API and by form, for a
\* record of 30 seconds on an own task and is refused with the minimum named
C6_Witness ==
    \E u \in Users, id \in RecordIds :
        /\ OwnsRecord(u, id)
        /\ 0 < 30 /\ 30 < MinWorkedTime
        /\ Err("worked_time", "min_value", 30) \in
              TimeRecordViewSet_create(u, records[id].task, today, 30, "w").errors
        /\ Err("worked_time", "min_value", 30) \in
              edit_record(u, id, "POST", records[id].task, today, 30, "w").errors
        /\ TimeRecordViewSet_update(u, id, TRUE, {"worked_time"},
              records[id].task, today, 30, "w").status = 400

\* C7: API validation responses.  For every API create and update (PUT or
\* PATCH) of a TimeRecord whose worked_time is <= 0 or whose record_date is
\* in the future, the other fields being good, the answer is a 400 that
\* names the offending field, and no record is created or changed.
C7_ApiFieldLevelErrors ==
    \A u \in Users :
        /\ \A x \in RecordInputs : GoodTaskAndText(u, x) =>
              LET out == TimeRecordViewSet_create(u, x.t, x.d, x.w, x.ds)
              IN  /\ x.w <= 0 => out.status = 400
                                 /\ FieldError(out, {"worked_time"})
                  /\ x.d > today => out.status = 400
                                    /\ FieldError(out, {"record_date"})
        /\ \A id \in RecordQuerySet(u), x \in RecordWrites :
              GoodTaskAndText(u, x.in) =>
              LET out == TimeRecordViewSet_update(u, id, x.partial, x.given,
                             x.in.t, x.in.d, x.in.w, x.in.ds)
              IN  /\ ("worked_time" \in x.given /\ x.in.w <= 0) =>
                        out.status = 400 /\ FieldError(out, {"worked_time"})
                  /\ ("record_date" \in x.given /\ x.in.d > today) =>
                        out.status = 400 /\ FieldError(out, {"record_date"})

\* the verdict on a request: carried out and what is stored after it, or
\* refused, how (a validation answer or a server error) and on which fields
Verdict(out) ==
    IF Accepted(out) THEN <<"accepted", out.records, {}>>
    ELSE <<IF out.status = 500 THEN "server error" ELSE "validation error",
           records,
           {IF e[1] = "task_id" THEN "task" ELSE e[1] : e \in out.errors}>>

\* C8: one rule at both entry points.  For every user and every record
\* content, API create and the web create form give the same verdict, and
\* for every record of the user API update (PUT) and the web edit form give
\* the same verdict: both store the same record, or both refuse in the same
\* way on the same fields.
C8_SameVerdictApiAndWeb ==
    \A u \in Users, x \in RecordInputs :
        /\ Verdict(TimeRecordViewSet_create(u, x.t, x.d, x.w, x.ds))
              = Verdict(new_record(u, "POST", x.t, x.d, x.w, x.ds))
        /\ \A id \in RecordQuerySet(u) :
              Verdict(TimeRecordViewSet_update(u, id, FALSE, RecordFields,
                                               x.t, x.d, x.w, x.ds))
                 = Verdict(edit_record(u, id, "POST", x.t, x.d, x.w, x.ds))

\* ------------------------------------------------------- owner of a task
\* the tasks the outcome adds are owned by u
NewTasksOwnedBy(u, out) ==
    \A id \in (DOMAIN out.tasks) \ (DOMAIN tasks) :
        out.tasks[id].responsible_user = u

\* C9: task creation forces the owner.  For every user u and every request
\* body, whatever owner it carries: a task created by API create or by the
\* web new-task form has responsible_user = u, and the outcome is the one
\* the same body without the owner value would give.
C9_CreationForcesOwner ==
    \A u \in Users :
        /\ \A x \in TaskInputs :
              LET out == TaskViewSet_create(u, x.o, x.description, x.active)
              IN  /\ NewTasksOwnedBy(u, out)
                  /\ out = TaskViewSet_create(u, u, x.description, x.active)
                  /\ out.status = 201 =>
                        (DOMAIN out.tasks) \ (DOMAIN tasks) = {nextTaskId}
        /\ \A x \in TaskPosts :
              LET out == new_task(u, x.method, x.in.o, x.in.description,
                                  x.in.active)
              IN  /\ NewTasksOwnedBy(u, out)
                  /\ out = new_task(u, x.method, u, x.in.description,
                                    x.in.active)
                  /\ out.status = 302 =>
                        (DOMAIN out.tasks) \ (DOMAIN tasks) = {nextTaskId}

\* a state, after a task was created, where a user's API and web creation
\* requests carrying another user as owner are carried out
C9_Witness ==
    /\ nextTaskId > 1
    /\ \E u \in Users, o \in Users :
          /\ o # u
          /\ TaskViewSet_create(u, o, "a", TRUE).status = 201
          /\ TaskViewSet_create(u, o, "a", TRUE).tasks[nextTaskId]
                .responsible_user = u
          /\ new_task(u, "POST", o, "a", TRUE).status = 302

\* the tasks that remain after the request have the owner they had
OwnersKept(out) ==
    \A id \in (DOMAIN tasks) \cap (DOMAIN out.tasks) :
        out.tasks[id].responsible_user = tasks[id].responsible_user

\* C10 as claimed: no step of the system, the admin task screen included,
\* changes the responsible_user of a task that exists before and after it.
C10_OwnerNeverReassigned ==
    [][\A id \in (DOMAIN tasks) \cap (DOMAIN tasks') :
          tasks'[id].responsible_user = tasks[id].responsible_user]_vars

\* C10, amended: no API or web request reassigns a task's owner.  In every
\* reachable state, for every user and every request the user can make (API
\* update by PUT or PATCH with any owner in the body, toggle_status, the web
\* edit form, and every other API or web request), each task that exists
\* before and after the request has the responsible_user it had.
C10_OwnerKeptByApiAndWeb ==
    \A u \in Users : AllUserRequests(u, OwnersKept)

\* a state where the owner of a task updates it, by API and by the edit
\* form, with a body that carries another user as owner
C10_Witness ==
    \E u \in Users, o \in Users, id \in TaskIds :
        /\ OwnsTask(u, id)
        /\ o # u
        /\ TaskViewSet_update(u, id, o, FALSE, TaskFields, "a", TRUE).status
              = 200
        /\ TaskViewSet_update(u, id, o, TRUE, {"description"}, "a", TRUE).status
              = 200
        /\ edit_task(u, id, "POST", o, "a", TRUE).status = 302

\* C12: toggle_status flips the stored flag.  Every step that is a
\* toggle_status of a task of the caller answers 200 with that task, stores
\* the negation of the flag the task had and nothing else, and the same
\* request repeated on the state it leaves restores the tables as they were.
C12_ToggleFlips ==
    [][\A u \in Users : \A id \in TaskQuerySet(u) :
          LET out == TaskViewSet_toggle_status(u, id)
          IN  (tasks' = out.tasks /\ records' = out.records /\ tasks' # tasks)
              => /\ out.status = 200
                 /\ out.ids = {id}
                 /\ DOMAIN tasks' = DOMAIN tasks
                 /\ tasks'[id].active = ~tasks[id].active
                 /\ tasks'[id].description = tasks[id].description
                 /\ tasks'[id].responsible_user = tasks[id].responsible_user
                 /\ \A t \in DOMAIN tasks \ {id} : tasks'[t] = tasks[t]
                 /\ TaskViewSet_toggle_status(u, id)'.status = 200
                 /\ TaskViewSet_toggle_status(u, id)'.tasks = tasks
                 /\ TaskViewSet_toggle_status(u, id)'.records = records]_vars

\* an inactive task whose owner's toggle_status makes it active
C12_Witness ==
    \E u \in Users : \E id \in TaskQuerySet(u) :
        /\ ~tasks[id].active
        /\ TaskViewSet_toggle_status(u, id).tasks[id].active

\* C20: for every user, active() lists exactly the tasks owned by the user
\* whose flag is true and inactive() exactly those whose flag is false: each
\* task of the user is in exactly one of the two lists and no task of another
\* user is in either.
C20_ActiveInactivePartition ==
    \A u \in Users :
        LET shown == TaskViewSet_active(u)
            hidden == TaskViewSet_inactive(u)
        IN  /\ shown.status = 200 /\ hidden.status = 200
            /\ shown.tasks = tasks /\ hidden.tasks = tasks
            /\ shown.records = records /\ hidden.records = records
            /\ \A t \in DOMAIN tasks :
                  /\ t \in shown.ids <=> (OwnsTask(u, t) /\ tasks[t].active)
                  /\ t \in hidden.ids
                        <=> (OwnsTask(u, t) /\ tasks[t].active = FALSE)
                  /\ OwnsTask(u, t) => (t \in shown.ids) # (t \in hidden.ids)
                  /\ ForeignTask(u, t) => t \notin shown.ids \cup hidden.ids
            /\ shown.ids \cup hidden.ids \subseteq DOMAIN tasks

\* a user with a task in each list
C20_Witness ==
    \E u \in Users :
        /\ TaskViewSet_active(u).ids # {}
        /\ TaskViewSet_inactive(u).ids # {}

\* the worked time of the records with ids 1..n that are in `among`, added
\* up one id after the other
RECURSIVE TotalOf(_, _)
TotalOf(n, among) ==
    IF n = 0 THEN 0
    ELSE TotalOf(n - 1, among)
         + (IF n \in DOMAIN records /\ n \in among
            THEN records[n].worked_time ELSE 0)

\* C11: in every state reached by creates, updates, reassignments and
\* deletes of records, total_worked_time(T) of every task T is the sum of
\* worked_time over exactly the records whose task is T, and the zero
\* duration when T has no record.
C11_TotalWorkedTime ==
    \A t \in DOMAIN tasks :
        LET ofTask == {r \in DOMAIN records : records[r].task = t}
        IN  /\ total_worked_time(t) = TotalOf(nextRecordId - 1, ofTask)
            /\ (\A r \in DOMAIN records : records[r].task # t)
                  => total_worked_time(t) = 0

\* a task with two records of different durations next to a task with none
C11_Witness ==
    \E t1 \in DOMAIN tasks, t2 \in DOMAIN tasks :
        /\ \E r1 \in DOMAIN records, r2 \in DOMAIN records :
              /\ records[r1].task = t1 /\ records[r2].task = t1
              /\ records[r1].worked_time # records[r2].worked_time
        /\ \A r \in DOMAIN records : records[r].task # t2
        /\ total_worked_time(t1) = 12600
        /\ total_worked_time(t2) = 0

\* the calendar the period claims are read against: the first days of the
\* months from November 2022 to June 2024 as day numbers
MonthStarts ==
    <<-60, -30, 1, 32, 60, 91, 121, 152, 182, 213, 244, 274, 305, 335, 366,
      397, 426, 457, 487, 518>>

\* the Monday on or before day D; day 2, 2 January 2023, is a Monday
MondayOf(D) == CHOOSE m \in (D - 6)..D : (m - 2) % 7 = 0

\* the place of D's month in MonthStarts
MonthIndex(D) ==
    CHOOSE i \in 2..(Len(MonthStarts) - 1) :
        MonthStarts[i] <= D /\ D < MonthStarts[i + 1]

\* C13: for every reference date, this_week selects exactly the user's
\* records dated on or after the Monday of the week of that date, so on a
\* Wednesday the records dated Monday to Wednesday are in and the Sunday
\* before is out; the period filter, the this_week action, the web record
\* list and the week totals of the summary and of both dashboards all use
\* this selection.
C13_ThisWeek ==
    \A u \in Users :
        LET monday == MondayOf(today)
            week == {r \in DOMAIN records :
                        OwnsRecord(u, r) /\ records[r].record_date >= monday}
            hours == [seconds |-> TotalOf(nextRecordId - 1, week),
                      per |-> 3600]
        IN  /\ TimeRecordViewSet_list_period(u, "this_week").ids = week
            /\ TimeRecordViewSet_this_week(u).ids = week
            /\ record_list_period(u, "this_week").ids = week
            /\ TimeRecordViewSet_summary(u).week_hours = hours
            /\ DashboardViewSet_list(u).hours_this_week = hours
            /\ dashboard(u).week_hours = hours
            /\ today - monday = 2
                  => \A r \in DOMAIN records :
                        OwnsRecord(u, r) =>
                            /\ records[r].record_date \in (today - 2)..today
                                  => r \in TimeRecordViewSet_this_week(u).ids
                            /\ records[r].record_date = today - 3
                                  => r \notin TimeRecordViewSet_this_week(u).ids

\* a Wednesday, with a record of the Sunday before that this_week leaves out
C13_Witness ==
    /\ today - MondayOf(today) = 2
    /\ \E u \in Users : \E r \in RecordQuerySet(u) :
          /\ records[r].record_date = today - 3
          /\ r \notin TimeRecordViewSet_this_week(u).ids
          /\ r \in TimeRecordViewSet_list(u).ids

\* C14: for every reference date, last_month selects exactly the user's
\* records dated from the first day of the month before the month of that
\* date to the day before the first of the month of that date; from a date
\* in January that is the whole of December of the year before.
C14_LastMonth ==
    \A u \in Users :
        LET i == MonthIndex(today)
            first == MonthStarts[i - 1]
            last == MonthStarts[i] - 1
        IN  /\ TimeRecordViewSet_list_period(u, "last_month").ids
                  = {r \in DOMAIN records :
                        /\ OwnsRecord(u, r)
                        /\ first <= records[r].record_date
                        /\ records[r].record_date <= last}
            /\ TimeRecordViewSet_list_period(u, "last_month").status = 200

\* a day of January 2024 with a record of 1 December 2023 that last_month
\* selects
C14_Witness ==
    /\ today \in 366..396
    /\ \E u \in Users : \E r \in RecordQuerySet(u) :
          /\ records[r].record_date = 335
          /\ r \in TimeRecordViewSet_list_period(u, "last_month").ids

\* C15: for every user the summary returns total_hours = the sum of the
\* worked time of the user's records over 3600, week_hours and month_hours =
\* the same sum over the records the this_week and this_month filters
\* select, and total_records = the number of the user's records; when all of
\* the user's records are dated today the three hour totals are equal; no
\* record of another user is counted.
C15_Summary ==
    \A u \in Users :
        LET own == {r \in DOMAIN records : OwnsRecord(u, r)}
            week == TimeRecordViewSet_list_period(u, "this_week").ids
            month == TimeRecordViewSet_list_period(u, "this_month").ids
            all == nextRecordId - 1
            s == TimeRecordViewSet_summary(u)
        IN  /\ s.total_hours.seconds = TotalOf(all, own)
            /\ s.week_hours.seconds = TotalOf(all, own \cap week)
            /\ s.month_hours.seconds = TotalOf(all, own \cap month)
            /\ s.total_hours.per = 3600
            /\ s.week_hours.per = 3600
            /\ s.month_hours.per = 3600
            /\ s.total_records = Cardinality(own)
            /\ (\A r \in own : records[r].record_date = today)
                  => /\ s.week_hours = s.total_hours
                     /\ s.month_hours = s.total_hours
            /\ (\A r \in DOMAIN records : ForeignRecord(u, r))
                  => /\ s.total_hours.seconds = 0
                     /\ s.total_records = 0

\* a user with two records, one of them before this month, while another
\* user has none: the month total is less than the week total
C15_Witness ==
    \E u \in Users :
        LET s == TimeRecordViewSet_summary(u)
        IN  /\ s.total_records = 2
            /\ s.total_hours.seconds = 12600
            /\ s.week_hours = s.total_hours
            /\ s.month_hours.seconds \in {5400, 7200}

\* a recent list: the `limit` latest of `ids`, or all of them when there are
\* fewer, the latest first; ids are handed out in the order of creation
IsRecent(seq, ids, limit) ==
    /\ Len(seq) = (IF Cardinality(ids) < limit THEN Cardinality(ids) ELSE limit)
    /\ \A i \in 1..Len(seq) : seq[i] \in ids
    /\ \A i \in 1..Len(seq), j \in 1..Len(seq) : i < j => seq[i] > seq[j]
    /\ \A x \in ids : (\A i \in 1..Len(seq) : seq[i] # x)
                         => \A i \in 1..Len(seq) : x < seq[i]

\* C16: for every user the dashboard resource returns the number of the
\* user's tasks, the number of those that are active, the user's worked time
\* in hours in all, this week and this month, the (at most) 5 tasks of the
\* user created last and the (at most) 10 records of the user created last;
\* nothing of another user is counted or listed.
C16_Dashboard ==
    \A u \in Users :
        LET ownTasks == {t \in DOMAIN tasks : OwnsTask(u, t)}
            own == {r \in DOMAIN records : OwnsRecord(u, r)}
            week == TimeRecordViewSet_list_period(u, "this_week").ids
            month == TimeRecordViewSet_list_period(u, "this_month").ids
            all == nextRecordId - 1
            d == DashboardViewSet_list(u)
        IN  /\ d.total_tasks = Cardinality(ownTasks)
            /\ d.active_tasks
                  = Cardinality({t \in ownTasks : tasks[t].active = TRUE})
            /\ d.total_worked_hours
                  = [seconds |-> TotalOf(all, own), per |-> 3600]
            /\ d.hours_this_week
                  = [seconds |-> TotalOf(all, own \cap week), per |-> 3600]
            /\ d.hours_this_month
                  = [seconds |-> TotalOf(all, own \cap month), per |-> 3600]
            /\ IsRecent(d.recent_tasks, ownTasks, 5)
            /\ IsRecent(d.recent_records, own, 10)

\* a user with more tasks than recent_tasks holds, some of them inactive,
\* and with records of before this month
C16_Witness ==
    \E u \in Users :
        LET d == DashboardViewSet_list(u)
        IN  /\ d.total_tasks > 5
            /\ Len(d.recent_tasks) = 5
            /\ d.active_tasks \in 1..5
            /\ d.hours_this_month.seconds > 0
            /\ d.hours_this_month.seconds < d.total_worked_hours.seconds

\* C17: for every user, every quantity of the dashboard resource is in the
\* context of the dashboard page with the same value: the two task counts,
\* the worked hours in all and of this week, the two recent lists, and,
\* under a key of its own, the worked hours of this month.
C17_WebDashboardSameAggregate ==
    \A u \in Users :
        LET api == DashboardViewSet_list(u)
            page == dashboard(u)
        IN  /\ page.total_tasks = api.total_tasks
            /\ page.active_tasks = api.active_tasks
            /\ page.total_hours = api.total_worked_hours
            /\ page.week_hours = api.hours_this_week
            /\ page.recent_tasks = api.recent_tasks
            /\ page.recent_records = api.recent_records
            /\ \E k \in DOMAIN page \ {"total_tasks", "active_tasks",
                                       "total_hours", "week_hours",
                                       "recent_tasks", "recent_records"} :
                  page[k] = api.hours_this_month

\* the number a string of decimal digits writes
DigitValue(c) ==
    CHOOSE d \in 0..9 :
        c = <<"0", "1", "2", "3", "4", "5", "6", "7", "8", "9">>[d + 1]

RECURSIVE NumberOf(_)
NumberOf(digits) ==
    IF digits = <<>> THEN 0
    ELSE 10 * NumberOf(SubSeq(digits, 1, Len(digits) - 1))
         + DigitValue(digits[Len(digits)])

IsDigit(c) == c \in {"0", "1", "2", "3", "4", "5", "6", "7", "8", "9"}

\* C19: for every stored worked_time of s seconds, worked_hours is the
\* hours, a colon and the minutes, in decimal digits: the hours are the whole
\* hours in s, the minutes the whole minutes in what is left, in 0..59, the
\* seconds beyond them cut off; the minutes take two digits and the hours at
\* least two, with a leading zero below ten.
C19_WorkedHoursFormat ==
    \A r \in DOMAIN records :
        LET s == records[r].worked_time
            out == worked_hours(s)
            n == Len(out)
            hh == SubSeq(out, 1, n - 3)
            mm == SubSeq(out, n - 1, n)
            H == NumberOf(hh)
            M == NumberOf(mm)
        IN  /\ n >= 5
            /\ out[n - 2] = ":"
            /\ \A i \in (1..n) \ {n - 2} : IsDigit(out[i])
            /\ H * 3600 <= s /\ s < (H + 1) * 3600
            /\ M \in 0..59
            /\ H * 3600 + M * 60 <= s
            /\ s < H * 3600 + (M + 1) * 60
            /\ (n = 5) <=> (s < 100 * 3600)
            /\ (n > 5) => hh[1] # "0"

\* a record of 2 h 30 min 59 s, shown as 02:30
C19_Witness ==
    \E r \in DOMAIN records :
        /\ records[r].worked_time = 9059
        /\ worked_hours(records[r].worked_time) = <<"0", "2", ":", "3", "0">>

\* the tasks and the records of user u among the given rows
RowsOf(u, ts, rs) ==
    LET mine == {t \in DOMAIN ts : ts[t].responsible_user = u}
    IN  [tasks |-> [t \in mine |-> ts[t]],
         records |-> [r \in {r \in DOMAIN rs : rs[r].task \in mine} |-> rs[r]]]

\* what user u obtains from request y, given its outcome: the response and
\* the user's rows as the request leaves them
ResultOf(u, y, out) ==
    IF y.route \in DataRoutes THEN out
    ELSE [status |-> out.status, exc |-> out.exc, errors |-> out.errors,
          ids |-> out.ids, rows |-> RowsOf(u, out.tasks, out.records)]

\* the same with the id given to a new task or record left out: the rows
\* that were among `mine` under their ids, the new ones without
ResultUpToNewIds(u, y, out, mine) ==
    IF y.route \in DataRoutes THEN out
    ELSE \* the rows of u after the request
         LET after == RowsOf(u, out.tasks, out.records)
             oldTasks == DOMAIN after.tasks \cap DOMAIN mine.tasks
             oldRecords == DOMAIN after.records \cap DOMAIN mine.records
         IN  [status |-> out.status, exc |-> out.exc, errors |-> out.errors,
              ids |-> IF y.route \in TaskRoutes \cup RecordRoutes THEN {}
                      ELSE out.ids,
              tasks |-> [t \in oldTasks |-> after.tasks[t]],
              records |-> [r \in oldRecords |-> after.records[r]],
              newTasks |->
                  {after.tasks[t] : t \in DOMAIN after.tasks \ oldTasks},
              newRecords |->
                  {after.records[r] : r \in DOMAIN after.records \ oldRecords}]

\* C18 as stated: a request changes the rows of one user at most, and a
\* request that leaves the rows of user B as they are leaves every result B
\* can obtain, from a read or from a write, as it is, whatever it did to the
\* rows of the others.
C18_UsersNeverInteract ==
    [][(tasks' # tasks \/ records' # records) =>
       \A B \in Users :
          \A before \in {RowsOf(B, tasks, records)},
             after \in {RowsOf(B, tasks', records')} :
              /\ after # before
                    => \A A \in Users \ {B} :
                          RowsOf(A, tasks', records') = RowsOf(A, tasks, records)
              /\ after = before
                    => \A y \in UserRequests :
                          \A was \in {Handle(B, y)}, is \in {Handle(B, y)'} :
                              ResultOf(B, y, is) = ResultOf(B, y, was)
      ]_vars

\* C18, amended: the same, the results compared up to the ids that the
\* tables hand out to new tasks and records, which count the creations of
\* all users.
C18_UsersInteractOnlyThroughNewIds ==
    [][(tasks' # tasks \/ records' # records) =>
       \A B \in Users :
          \A before \in {RowsOf(B, tasks, records)},
             after \in {RowsOf(B, tasks', records')} :
              /\ after # before
                    => \A A \in Users \ {B} :
                          RowsOf(A, tasks', records') = RowsOf(A, tasks, records)
              /\ after = before
                    => \A y \in UserRequests :
                          \A was \in {Handle(B, y)}, is \in {Handle(B, y)'} :
                              ResultUpToNewIds(B, y, is, before)
                                 = ResultUpToNewIds(B, y, was, before)
      ]_vars

\* two users with a task each, one of them with a record, whose own delete
\* is accepted while the same delete by the other is not found
C18_Witness ==
    \E A \in Users, B \in Users :
        /\ A # B
        /\ \E t \in TaskQuerySet(A) :
              /\ TaskViewSet_destroy(A, t).status = 204
              /\ TaskViewSet_destroy(B, t).status = 404
        /\ TaskQuerySet(B) # {}
        /\ RecordQuerySet(A) # {}

\* C21: a period value that is no period name filters nothing and is no
\* error: the API record list answers 200 with all of the user's records,
\* and so does the web record list.
C21_UnrecognizedPeriodPassesThrough ==
    \A u \in Users : \A value \in Periods \ (PeriodChoices \cup {""}) :
        /\ TimeRecordViewSet_list_period(u, value).status = 200
        /\ TimeRecordViewSet_list_period(u, value).ids = RecordQuerySet(u)
        /\ record_list_period(u, value).status = 200
        /\ record_list_period(u, value).ids = RecordQuerySet(u)

\* C22: for every period name the web record list shows the same records
\* as the period filter of the API.
C22_WebPeriodsAsApi ==
    \A u \in Users : \A value \in PeriodChoices :
        record_list_period(u, value).ids
            = TimeRecordViewSet_list_period(u, value).ids

\* C26: for every reference date D and every date d of a record, the named
\* periods tile the calendar: d = D is in today, this_week and this_month;
\* today is D alone and yesterday is D - 1 alone; last_week is exactly the
\* seven days from the Monday before the Monday of D's week to the Sunday
\* before it, so it ends the day before this_week starts and shares no day
\* with it; last_month ends the day before the first of D's month, where
\* this_month starts, and shares no day with it.
C26_PeriodsTile ==
    \A u \in Users : \A r \in RecordQuerySet(u) :
        LET d == records[r].record_date
            monday == MondayOf(today)
            first == MonthStarts[MonthIndex(today)]
            before == MonthStarts[MonthIndex(today) - 1]
            on == {value \in PeriodChoices :
                      r \in TimeRecordViewSet_list_period(u, value).ids}
        IN  /\ d = today => {"today", "this_week", "this_month"} \subseteq on
            /\ "today" \in on <=> d = today
            /\ "yesterday" \in on <=> d = today - 1
            /\ "last_week" \in on <=> d \in (monday - 7)..(monday - 1)
            /\ "this_week" \in on <=> d >= monday
            /\ ~("last_week" \in on /\ "this_week" \in on)
            /\ "last_month" \in on <=> d \in before..(first - 1)
            /\ "this_month" \in on <=> d >= first
            /\ ~("last_month" \in on /\ "this_month" \in on)

\* a record of the Sunday that ends last_week, the day before this_week
\* starts, which is also the day that ends last_month (Sunday 31 December
\* 2023, seen from the first week of January): it is in last_week and
\* last_month and in neither this_week nor this_month
C26_Witness ==
    \E u \in Users : \E r \in RecordQuerySet(u) :
        /\ records[r].record_date = MondayOf(today) - 1
        /\ records[r].record_date = MonthStarts[MonthIndex(today)] - 1
        /\ r \in TimeRecordViewSet_list_period(u, "last_week").ids
        /\ r \notin TimeRecordViewSet_list_period(u, "this_week").ids
        /\ r \in TimeRecordViewSet_list_period(u, "last_month").ids
        /\ r \notin TimeRecordViewSet_list_period(u, "this_month").ids

\* the effective owner of record r in the tables ts and rs
EffectiveOwner(ts, rs, r) == ts[rs[r].task].responsible_user

\* C24: no API or web request of any user, an update that puts the record
\* on another task included, changes the effective owner of a record: a
\* record that exists before and after the request has the
\* task.responsible_user it had, and a record the request creates has the
\* user who made the request.
C24_RecordOwnerNeverChanges ==
    [][\A r \in DOMAIN records' :
          IF r \in DOMAIN records
          THEN EffectiveOwner(tasks', records', r)
                  = EffectiveOwner(tasks, records, r)
          ELSE \A u \in Users : \A y \in UserRequests :
                  UserRequest(u, y)
                     => EffectiveOwner(tasks', records', r) = u
      ]_vars

\* a user with two tasks and a record on one of them, whose updates by API
\* and by the edit form that put the record on the other task are accepted
\* and move it, while the other user's same requests find no record
C24_Witness ==
    \E u \in Users, v \in Users, r \in RecordIds, t \in TaskIds :
        /\ OwnsRecord(u, r)
        /\ OwnsTask(u, t)
        /\ v # u
        /\ records[r].task # t
        /\ TimeRecordViewSet_update(u, r, FALSE, RecordFields, t, today,
                                    MinWorkedTime, "w").records[r].task = t
        /\ edit_record(u, r, "POST", t, today, MinWorkedTime,
                       "w").records[r].task = t
        /\ TimeRecordViewSet_update(v, r, FALSE, RecordFields, t, today,
                                    MinWorkedTime, "w").status = 404
        /\ edit_record(v, r, "POST", t, today, MinWorkedTime, "w").status
              = 404

\* C23: in every reachable state every stored record is dated on or before
\* the current date, so this_week selects exactly the user's records dated
\* from the Monday of the current week to today and this_month exactly
\* those dated from the first of the current month to today.
C23_NoRecordInTheFuture ==
    /\ \A r \in DOMAIN records : records[r].record_date <= today
    /\ \A u \in Users :
          LET monday == MondayOf(today)
              first == MonthStarts[MonthIndex(today)]
          IN  /\ TimeRecordViewSet_this_week(u).ids
                    = {r \in DOMAIN records :
                          /\ OwnsRecord(u, r)
                          /\ records[r].record_date \in monday..today}
              /\ TimeRecordViewSet_this_month(u).ids
                    = {r \in DOMAIN records :
                          /\ OwnsRecord(u, r)
                          /\ records[r].record_date \in first..today}

\* the day after a record was stored, the first of a month: the record is
\* of this week and not of this month, and a create, an update and a direct
\* save that carry tomorrow's date store nothing
C23_Witness ==
    \E u \in Users : \E r \in RecordQuerySet(u) :
        /\ records[r].record_date = today - 1
        /\ today = MonthStarts[MonthIndex(today)]
        /\ r \in TimeRecordViewSet_this_week(u).ids
        /\ r \notin TimeRecordViewSet_this_month(u).ids
        /\ Unchanged(TimeRecordViewSet_create(u, records[r].task, today + 1,
                                              MinWorkedTime, "w"))
        /\ Unchanged(TimeRecordViewSet_update(u, r, TRUE, {"record_date"},
                                              records[r].task, today + 1,
                                              MinWorkedTime, "w"))
        /\ Unchanged(edit_record(u, r, "POST", records[r].task, today + 1,
                                 MinWorkedTime, "w"))
        /\ Unchanged(TimeRecord_objects_create(records[r].task, today + 1,
                                               MinWorkedTime, "w"))

\* the task before the requests that overlap
FirstTask == Task("u1", "a", TRUE)

Answered == {q \in DOMAIN inflight : inflight[q].pc = "done"}

\* what C25 asks of the task once every request has answered: active
\* flipped once per toggle_status, the description of the update stored
NoWriteLost ==
    /\ tasks[1].active
          = IF Cardinality({q \in Answered :
                               inflight[q].route = "toggle_status"}) % 2 = 0
            THEN FirstTask.active ELSE ~FirstTask.active
    /\ \A q \in Answered :
          inflight[q].route = "partial_update"
             => tasks[1].description = inflight[q].description

\* C25 as claimed: when the requests on a task (two toggle_status, or a
\* toggle_status and an update of the description) have all answered, no
\* write is lost, however their steps interleaved.
C25_NoWriteLost ==
    (inflight # <<>> /\ Answered = DOMAIN inflight) => NoWriteLost

\* C25, amended: requests on one task race last-write-wins on the whole
\* row.  The stored task is always the row as one answered request wrote
\* it, that is the task as that request read it with its own change alone
\* (or the first task while none has answered); and when no request read
\* the task before an earlier one had answered, no write is lost.
C25_LastWriteWinsOnTheRow ==
    /\ IF Answered = {} THEN tasks[1] = FirstTask
       ELSE \E q \in Answered : tasks[1] = instance(q)
    /\ (/\ Answered = DOMAIN inflight
        /\ \A q \in DOMAIN inflight : inflight[q].after = 1..(q - 1))
          => NoWriteLost

\* two toggle_status that both read the active task before either wrote
\* and have both answered: active was flipped once, not twice
C25_Witness ==
    /\ Len(inflight) >= 2
    /\ Answered = DOMAIN inflight
    /\ \A q \in {1, 2} :
          /\ inflight[q].route = "toggle_status"
          /\ inflight[q].after = {}
          /\ inflight[q].loaded = FirstTask
    /\ tasks[1].active = ~FirstTask.active

=============================================================================
